---------------------------- MODULE Spec2Model ----------------------------
(***************************************************************************)
(* A model of the query orchestration core of the Enterprise AI assistant: *)
(* the Permission Resolver (backend/app/services/permission_service.py),   *)
(* the Tool Directory & Executor (services/mcp_client.py), the LLM Gateway *)
(* and the Query Orchestrator (services/ai_orchestrator.py) and the        *)
(* Conversation Store (services/conversation_storage.py); and of the       *)
(* services beside it: the RAG service (services/rag_service.py) and the   *)
(* vector store's search and ingestion (vector-store/search.py,            *)
(* vector-store/ingest.py), authentication (core/security.py,              *)
(* api/v1/auth.py) and the rate limiter (services/rate_limiter.py).        *)
(*                                                                         *)
(* The specifications share the definitions:                               *)
(*   SpecFn    the pure functions, applied to inputs drawn from bounded    *)
(*             sets (one action per function);                             *)
(*   Spec      AIOrchestrator.handle_query, run by MaxReq concurrent       *)
(*             asyncio tasks; one action per stretch of code between two   *)
(*             awaits;                                                     *)
(*   SpecSeq   handle_query called MaxTurnsSeq times one after the other,  *)
(*             with every kind of registry reply and a two-tool query;     *)
(*   SpecLong  one client that sends MaxTurnsLong queries one after the    *)
(*             other, long enough for the history window to slide;         *)
(*   SpecStore ConversationStorage.get and set with a durable store that   *)
(*             can fail per call, and the clock of its expiry;             *)
(*   SpecRag   semantic_search of both implementations and build_context   *)
(*             on small corpora;                                           *)
(*   SpecIngest  add_documents run by concurrent tasks, with commits that  *)
(*             can fail;                                                   *)
(*   SpecAuth  POST /auth/logout and GET /auth/me on a set of tokens;      *)
(*   SpecLimiter  RateLimiter.is_allowed on the in-memory path, with the   *)
(*             clock;                                                      *)
(*   SpecChunker  chunk_text, one loop iteration per step;                 *)
(*   SpecPrompt  the history section of _build_prompt on stored            *)
(*             conversations of up to MaxStored messages;                  *)
(*   SpecSearchIngest  semantic_search, in its two steps, beside           *)
(*             add_documents calls;                                        *)
(*   SpecServer  the execution plane (mcp-server/server.py): list_tools,   *)
(*             execute_tool, and a tool call as the orchestrator sends it. *)
(*                                                                         *)
(* Python strings are TLA+ strings (\o is concatenation, Len the length);  *)
(* Python's None is the string None.                                       *)
(***************************************************************************)
EXTENDS Integers, Sequences, FiniteSets, TLC

VARIABLES
    call,           \* SpecFn: the last function call, its arguments and result
    conversations,  \* ai_orchestrator._conversations: id -> ConversationContext
    req,            \* per asyncio task: the locals of handle_query and its position
    turns,          \* number of handle_query calls started so far (bounded)
    completedLog,   \* history: per conversation id, the <<query, answer>> of each call that returned
    ai_provider,    \* settings.ai_provider
    in_memory,      \* ConversationStorage._in_memory: id -> serialized context
    redis_data,     \* the keys of the durable store: "conv:<id>" -> value and expiry
    storage,        \* ConversationStorage._redis_enabled, the clock, and the last set per id
    rag,            \* RAGService: the vector index, the documents table, the add_documents tasks
    auth,           \* the token_blacklist table and the last authenticated request
    limiter,        \* RateLimiter._in_memory, _last_cleanup, the clock, the calls made
    chunker         \* one chunk_text call: its arguments, locals and position

\* the state of the services beside the orchestrator
services == <<in_memory, redis_data, storage, rag, auth, limiter, chunker>>

vars == <<call, conversations, req, turns, completedLog, ai_provider, services>>

None == "<None>"

(***************************************************************************)
(* str.lower() on the role and department spellings the inputs use.        *)
(***************************************************************************)
Lower(s) ==
    CASE s = "Admin" -> "admin"
      [] s = "HR" -> "hr"
      [] s = "Engineering" -> "engineering"
      [] s = "Public" -> "public"
      [] s = "General" -> "general"
      [] OTHER -> s

(***************************************************************************)
(* Permission Resolver                                                     *)
(***************************************************************************)
ROLE_TOOL_PERMISSIONS ==
    [admin |-> {"search_documents", "query_database", "search_github",
                "search_jira", "get_github_file", "get_jira_ticket"},
     manager |-> {"search_documents", "query_database", "search_jira",
                  "get_jira_ticket"},
     employee |-> {"search_documents"}]

DEPARTMENT_DOCUMENT_ACCESS ==
    [engineering |-> {"engineering", "general", "public"},
     hr |-> {"hr", "general", "public"},
     finance |-> {"finance", "general", "public"},
     sales |-> {"sales", "general", "public"},
     admin |-> {"*"}]

\* A slip: the role is looked up case-insensitively.
can_access_tool_lowercased(role, tool_name) ==
    LET allowed_tools == IF Lower(role) \in DOMAIN ROLE_TOOL_PERMISSIONS
                         THEN ROLE_TOOL_PERMISSIONS[Lower(role)]
                         ELSE {}
    IN  tool_name \in allowed_tools

\* self.role_permissions.get(role, set()); tool_name in allowed_tools
can_access_tool(role, tool_name) ==
    LET allowed_tools == IF role \in DOMAIN ROLE_TOOL_PERMISSIONS
                         THEN ROLE_TOOL_PERMISSIONS[role]
                         ELSE {}
    IN  tool_name \in allowed_tools

\* A slip: the requester's department is looked up as spelled.
can_access_department_docs_case_sensitive(user_department, user_role, document_department) ==
    IF user_role = "admin" THEN TRUE
    ELSE LET allowed_depts == IF user_department \in DOMAIN DEPARTMENT_DOCUMENT_ACCESS
                              THEN DEPARTMENT_DOCUMENT_ACCESS[user_department]
                              ELSE {"public"}
         IN  IF "*" \in allowed_depts THEN TRUE
             ELSE Lower(document_department) \in allowed_depts

can_access_department_docs(user_department, user_role, document_department) ==
    IF user_role = "admin" THEN TRUE
    ELSE LET allowed_depts == IF Lower(user_department) \in DOMAIN DEPARTMENT_DOCUMENT_ACCESS
                              THEN DEPARTMENT_DOCUMENT_ACCESS[Lower(user_department)]
                              ELSE {"public"}
         IN  IF "*" \in allowed_depts THEN TRUE
             ELSE Lower(document_department) \in allowed_depts

(***************************************************************************)
(* Tool.should_use: the keyword table, and Python's str.lower() and        *)
(* substring test (kw in query_lower) computed on the characters.  Chars   *)
(* spells out a string as its sequence of characters.                     *)
(***************************************************************************)
Chars(s) ==
    CASE s = "document" -> <<"d", "o", "c", "u", "m", "e", "n", "t">>
      [] s = "policy" -> <<"p", "o", "l", "i", "c", "y">>
      [] s = "guide" -> <<"g", "u", "i", "d", "e">>
      [] s = "manual" -> <<"m", "a", "n", "u", "a", "l">>
      [] s = "find" -> <<"f", "i", "n", "d">>
      [] s = "search" -> <<"s", "e", "a", "r", "c", "h">>
      [] s = "company" -> <<"c", "o", "m", "p", "a", "n", "y">>
      [] s = "database" -> <<"d", "a", "t", "a", "b", "a", "s", "e">>
      [] s = "sql" -> <<"s", "q", "l">>
      [] s = "query" -> <<"q", "u", "e", "r", "y">>
      [] s = "employee" -> <<"e", "m", "p", "l", "o", "y", "e", "e">>
      [] s = "salary" -> <<"s", "a", "l", "a", "r", "y">>
      [] s = "project" -> <<"p", "r", "o", "j", "e", "c", "t">>
      [] s = "department" -> <<"d", "e", "p", "a", "r", "t", "m", "e", "n", "t">>
      [] s = "schema" -> <<"s", "c", "h", "e", "m", "a">>
      [] s = "tables" -> <<"t", "a", "b", "l", "e", "s">>
      [] s = "columns" -> <<"c", "o", "l", "u", "m", "n", "s">>
      [] s = "database structure" -> <<"d", "a", "t", "a", "b", "a", "s", "e", " ", "s", "t", "r", "u", "c", "t", "u", "r", "e">>
      [] s = "github" -> <<"g", "i", "t", "h", "u", "b">>
      [] s = "issue" -> <<"i", "s", "s", "u", "e">>
      [] s = "pull request" -> <<"p", "u", "l", "l", " ", "r", "e", "q", "u", "e", "s", "t">>
      [] s = "pr" -> <<"p", "r">>
      [] s = "repository" -> <<"r", "e", "p", "o", "s", "i", "t", "o", "r", "y">>
      [] s = "repo" -> <<"r", "e", "p", "o">>
      [] s = "code" -> <<"c", "o", "d", "e">>
      [] s = "file content" -> <<"f", "i", "l", "e", " ", "c", "o", "n", "t", "e", "n", "t">>
      [] s = "source code" -> <<"s", "o", "u", "r", "c", "e", " ", "c", "o", "d", "e">>
      [] s = "readme" -> <<"r", "e", "a", "d", "m", "e">>
      [] s = "jira" -> <<"j", "i", "r", "a">>
      [] s = "ticket" -> <<"t", "i", "c", "k", "e", "t">>
      [] s = "task" -> <<"t", "a", "s", "k">>
      [] s = "story" -> <<"s", "t", "o", "r", "y">>
      [] s = "bug" -> <<"b", "u", "g">>
      [] s = "sprint" -> <<"s", "p", "r", "i", "n", "t">>
      [] s = "jira ticket" -> <<"j", "i", "r", "a", " ", "t", "i", "c", "k", "e", "t">>
      [] s = "ticket details" -> <<"t", "i", "c", "k", "e", "t", " ", "d", "e", "t", "a", "i", "l", "s">>
      [] s = "sprints" -> <<"s", "p", "r", "i", "n", "t", "s">>
      [] s = "iteration" -> <<"i", "t", "e", "r", "a", "t", "i", "o", "n">>
      [] s = "hi" -> <<"h", "i">>
      [] s = "Jira sprint" -> <<"J", "i", "r", "a", " ", "s", "p", "r", "i", "n", "t">>
      [] s = "find the Jira sprint" -> <<"f", "i", "n", "d", " ", "t", "h", "e", " ", "J", "i", "r", "a", " ", "s", "p", "r", "i", "n", "t">>
      [] s = "find the Jira ticket" -> <<"f", "i", "n", "d", " ", "t", "h", "e", " ", "J", "i", "r", "a", " ", "t", "i", "c", "k", "e", "t">>
      [] s = "Company policy" -> <<"C", "o", "m", "p", "a", "n", "y", " ", "p", "o", "l", "i", "c", "y">>
      [] OTHER -> <<>>

\* str.lower() on one character (the upper-case letters the queries use)
LowerChar(c) ==
    CASE c = "C" -> "c"
      [] c = "J" -> "j"
      [] OTHER -> c

LowerChars(cs) == [i \in 1..Len(cs) |-> LowerChar(cs[i])]

\* kw in s, on character sequences
Contains(kw, cs) ==
    \E i \in 1..(Len(cs) - Len(kw) + 1) : SubSeq(cs, i, i + Len(kw) - 1) = kw

KEYWORDS ==
    [search_documents |-> {"document", "policy", "guide", "manual", "find", "search", "company"},
     query_database |-> {"database", "sql", "query", "employee", "salary", "project", "department"},
     get_database_schema |-> {"schema", "tables", "columns", "database structure"},
     search_github |-> {"github", "issue", "pull request", "pr", "repository", "repo", "code"},
     get_github_file |-> {"file content", "source code", "readme"},
     search_jira |-> {"jira", "ticket", "task", "story", "bug", "sprint"},
     get_jira_ticket |-> {"jira ticket", "ticket details"},
     list_jira_sprints |-> {"sprint", "sprints", "iteration"}]

should_use(name, query) ==
    LET query_lower == LowerChars(Chars(query))
        tool_keywords == IF name \in DOMAIN KEYWORDS THEN KEYWORDS[name] ELSE {}
    IN  \E kw \in tool_keywords : Contains(Chars(kw), query_lower)

(***************************************************************************)
(* The execution plane (mcp-server): its tool table and role map, and the  *)
(* discovery endpoint GET /tools?role=.                                    *)
(***************************************************************************)
TOOLS ==
    <<"search_documents", "query_database", "get_database_schema",
      "search_github", "get_github_file", "search_jira", "get_jira_ticket",
      "list_jira_sprints">>

\* A slip: the execution plane's map lacks a tool the backend grants managers.
ROLE_TOOL_MAP_without_tickets ==
    [admin |-> {"search_documents", "query_database", "get_database_schema",
                "search_github", "get_github_file", "search_jira",
                "get_jira_ticket", "list_jira_sprints"},
     manager |-> {"search_documents", "query_database", "get_database_schema",
                  "search_jira", "list_jira_sprints"},
     employee |-> {"search_documents"}]

ROLE_TOOL_MAP ==
    [admin |-> {"search_documents", "query_database", "get_database_schema",
                "search_github", "get_github_file", "search_jira",
                "get_jira_ticket", "list_jira_sprints"},
     manager |-> {"search_documents", "query_database", "get_database_schema",
                  "search_jira", "get_jira_ticket", "list_jira_sprints"},
     employee |-> {"search_documents"}]

\* [x for x in s if P(x)]
RECURSIVE SelectInOrder(_, _)
SelectInOrder(s, keep) ==
    IF s = <<>> THEN <<>>
    ELSE (IF Head(s) \in keep THEN <<Head(s)>> ELSE <<>>) \o SelectInOrder(Tail(s), keep)

Range(s) == {s[i] : i \in DOMAIN s}

\* the "tools" list of the discovery response, by name
list_tools(role) ==
    LET allowed_tools == IF role \in DOMAIN ROLE_TOOL_MAP THEN ROLE_TOOL_MAP[role] ELSE {}
    IN  SelectInOrder(TOOLS, {name \in Range(TOOLS) : name \in allowed_tools \/ role = "admin"})

(***************************************************************************)
(* Python dicts are functions; d.get(k, default).                          *)
(***************************************************************************)
Get(d, k, default) == IF k \in DOMAIN d THEN d[k] ELSE default

EmptyDict == [k \in {} |-> None]

(***************************************************************************)
(* What the remote side does with one HTTP request.                        *)
(*   kind "json"       a 2xx response whose body parses to the dict body   *)
(*   kind "not_json"   a 2xx response whose body is not JSON:              *)
(*                     response.json() raises json.JSONDecodeError         *)
(*   kind "http_error" a subclass of httpx.HTTPError: ConnectError,        *)
(*                     ReadTimeout, or HTTPStatusError from                *)
(*                     raise_for_status() on a non-2xx status              *)
(***************************************************************************)
HTTPErrors == {"ConnectError", "ReadTimeout", "HTTPStatusError"}

\* str(e) of the exception
ExcText(exc) ==
    CASE exc = "ConnectError" -> "All connection attempts failed"
      [] exc = "ReadTimeout" -> "timed out"
      [] exc = "HTTPStatusError" -> "Server error '500 Internal Server Error'"
      [] exc = "JSONDecodeError" -> "Expecting value: line 1 column 1 (char 0)"
      [] exc = "IndexError" -> "list index out of range"
      [] exc = "AttributeError" -> "'ToolUseBlock' object has no attribute 'text'"
      [] exc = "TypeError" -> "'coroutine' object is not subscriptable"
      [] exc = "AuthenticationError" -> "Error code: 401"
      [] exc = "RateLimitError" -> "Error code: 429"
      [] exc = "APIConnectionError" -> "Connection error."
      [] exc = "OpenAIError" -> "The api_key client option must be set"
      [] OTHER -> ""

Returned(v) == [raised |-> FALSE, exc |-> None, value |-> v]
Raised(e) == [raised |-> TRUE, exc |-> e, value |-> None]

\* A slip: the fallback list is empty.
discover_tools_no_fallback(role, reply) ==
    CASE reply.kind = "http_error" -> Returned(<<>>)
      [] reply.kind = "not_json" -> Raised("JSONDecodeError")
      [] OTHER -> Returned(Get(reply.body, "tools", <<>>))

\* MCPClient.discover_tools: the names of the Tool objects it returns
discover_tools(role, reply) ==
    CASE reply.kind = "http_error" -> Returned(<<"search_documents">>)
      [] reply.kind = "not_json" -> Raised("JSONDecodeError")
      [] OTHER -> Returned(Get(reply.body, "tools", <<>>))

ToolCallFailed(exc) == "Tool call failed: " \o ExcText(exc)

\* MCPClient.call_tool: what it returns or raises (the audit record is not modelled here)
call_tool(tool_name, reply) ==
    CASE reply.kind = "http_error" ->
            Returned([success |-> FALSE, tool_name |-> tool_name,
                      error |-> ToolCallFailed(reply.exc),
                      execution_time_ms |-> reply.ms])
      [] reply.kind = "not_json" -> Raised("JSONDecodeError")
      [] OTHER -> Returned(reply.body)

\* audit_logger.log_tool_execution(...): the "tool_execution" record
AuditRecord(user_id, tool_name, success, error) ==
    [event |-> "tool_execution", user_id |-> user_id, tool_name |-> tool_name,
     success |-> success, error |-> error]

\* the argument user_id: an int, or None when the caller leaves it out
UserId(value) == [given |-> TRUE, value |-> value]
NoUserId == [given |-> FALSE, value |-> 0]

\* Python's truth value of the argument user_id (int | None)
Truthy(user_id) == user_id.given /\ user_id.value # 0

\* MCPClient.call_tool: the audit records one invocation emits
call_tool_audit(tool_name, reply, user_id) ==
    CASE reply.kind = "http_error" ->
            IF Truthy(user_id)
            THEN <<AuditRecord(user_id.value, tool_name, FALSE, ToolCallFailed(reply.exc))>>
            ELSE <<>>
      [] reply.kind = "not_json" -> <<>>
      [] OTHER ->
            IF Truthy(user_id)
            THEN <<AuditRecord(user_id.value, tool_name,
                               Get(reply.body, "success", TRUE), None)>>
            ELSE <<>>

ToolExecution(tool_name, success, result, error, execution_time_ms) ==
    [tool_name |-> tool_name, success |-> success, result |-> result,
     error |-> error, execution_time_ms |-> execution_time_ms]

\* A slip: the wrapper without its except clause.
execute_tool_safe_unwrapped(tool_name, reply) ==
    LET r == call_tool(tool_name, reply)
        result == r.value
    IN  IF r.raised THEN r
        ELSE Returned(ToolExecution(
                tool_name,
                Get(result, "success", FALSE),
                IF Get(result, "success", FALSE) THEN Get(result, "result", None) ELSE None,
                Get(result, "error", None),
                Get(result, "execution_time_ms", 0)))

\* handle_query.execute_tool_safe
execute_tool_safe(tool_name, reply) ==
    LET r == call_tool(tool_name, reply)
        result == r.value
    IN  IF r.raised
        THEN Returned(ToolExecution(tool_name, FALSE, None, ExcText(r.exc), 0))
        ELSE Returned(ToolExecution(
                tool_name,
                Get(result, "success", FALSE),
                IF Get(result, "success", FALSE) THEN Get(result, "result", None) ELSE None,
                Get(result, "error", None),
                Get(result, "execution_time_ms", 0)))

(***************************************************************************)
(* LLM Gateway.  What the provider SDK does with one completion request:   *)
(*   kind "response"  a response object; texts lists the text of each      *)
(*                    choice (OpenAI) or content block (Anthropic), None   *)
(*                    for a choice whose content is null or a block that   *)
(*                    is not a text block                                  *)
(*   kind "error"     the client constructor or the call raises exc        *)
(***************************************************************************)
DegradedPrefix ==
    "I apologize, but I encountered an error processing your request. Please try again later. Error: "

DegradedAnswer(exc) == DegradedPrefix \o ExcText(exc)

\* A slip: only the provider's API errors are caught, not what reading the response raises.
_call_llm_api_errors_only(provider, reply) ==
    IF reply.kind = "error" THEN Returned(DegradedAnswer(reply.exc))
    ELSE IF reply.texts = <<>> THEN Raised("IndexError")
    ELSE IF provider = "anthropic"
         THEN (IF reply.texts[1] = None THEN Raised("AttributeError")
               ELSE Returned(reply.texts[1]))
         ELSE Returned(IF reply.texts[1] = None THEN "" ELSE reply.texts[1])

\* AIOrchestrator._call_llm
_call_llm(provider, reply) ==
    IF reply.kind = "error" THEN Returned(DegradedAnswer(reply.exc))
    ELSE IF reply.texts = <<>> THEN Returned(DegradedAnswer("IndexError"))
    ELSE IF provider = "anthropic"
         THEN (IF reply.texts[1] = None THEN Returned(DegradedAnswer("AttributeError"))
               ELSE Returned(reply.texts[1]))
         ELSE Returned(IF reply.texts[1] = None THEN "" ELSE reply.texts[1])

(***************************************************************************)
(* Conversation state.                                                     *)
(***************************************************************************)
ConversationContext(id) ==
    [conversation_id |-> id, messages |-> <<>>, tools_used |-> <<>>, sources |-> <<>>]

Message(role, content) == [role |-> role, content |-> content]

\* s[-n:]
LastN(s, n) == IF Len(s) <= n THEN s ELSE SubSeq(s, Len(s) - n + 1, Len(s))

\* uuid.uuid4(): an id no conversation has; the k-th one generated is GenId(k)
GenId(k) ==
    CASE k = 1 -> "uuid-1" [] k = 2 -> "uuid-2" [] k = 3 -> "uuid-3"
      [] k = 4 -> "uuid-4" [] k = 5 -> "uuid-5" [] k = 6 -> "uuid-6"
      [] k = 7 -> "uuid-7" [] k = 8 -> "uuid-8" [] OTHER -> "uuid-9"

GenIds == {GenId(k) : k \in 1..9}

uuid4 == GenId(Cardinality(DOMAIN conversations \cap GenIds) + 1)

\* AIOrchestrator.get_or_create_conversation: the id of the context object it
\* returns and _conversations after the call
get_or_create_conversation(conversation_id) ==
    IF conversation_id # None /\ conversation_id # ""
       /\ conversation_id \in DOMAIN conversations
    THEN [id |-> conversation_id, store |-> conversations]
    ELSE LET new_id == IF conversation_id # None /\ conversation_id # ""
                       THEN conversation_id ELSE uuid4
         IN  [id |-> new_id,
              store |-> [i \in DOMAIN conversations \cup {new_id} |->
                            IF i = new_id THEN ConversationContext(new_id)
                            ELSE conversations[i]]]

\* context.model_dump_json(): the JSON text, as the list of the field values
model_dump_json(context) ==
    <<"json", context.conversation_id, context.messages, context.tools_used,
      context.sources>>

\* ConversationContext.model_validate(json.loads(data_json))
model_validate(data_json) ==
    [conversation_id |-> data_json[2], messages |-> data_json[3],
     tools_used |-> data_json[4], sources |-> data_json[5]]

CacheTtlSeconds == 3600     \* settings.cache_ttl_seconds

\* self._redis.get("conv:<id>"): the value of a key that is set and not expired
RedisGet(key) ==
    IF key \in DOMAIN redis_data /\ storage.now < redis_data[key].expires_at
    THEN redis_data[key].value ELSE None

\* ConversationStorage.get: found is FALSE when get returns None.  redis_up
\* says whether the durable store answers this read or raises.
ConversationStorage_get(conversation_id, redis_up) ==
    LET from_redis == IF storage.redis_enabled /\ redis_up
                      THEN RedisGet("conv:" \o conversation_id) ELSE None
        data_json == IF from_redis # None THEN from_redis
                     ELSE IF conversation_id \in DOMAIN in_memory
                     THEN in_memory[conversation_id] ELSE None
    IN  IF data_json = None
        THEN [found |-> FALSE, context |-> ConversationContext(conversation_id)]
        ELSE [found |-> TRUE, context |-> model_validate(data_json)]

\* A slip: the in-process map is written only when the durable store did
\* not take the write.
ConversationStorage_set_one_copy(conversation_id, context, redis_up) ==
    LET data_json == model_dump_json(context)
        key == "conv:" \o conversation_id
        put(f, k, v) == [i \in DOMAIN f \cup {k} |-> IF i = k THEN v ELSE f[i]]
    IN  IF storage.redis_enabled /\ redis_up
        THEN [in_memory |-> in_memory,
              redis_data |-> put(redis_data, key,
                                 [value |-> data_json,
                                  expires_at |-> storage.now + CacheTtlSeconds])]
        ELSE [in_memory |-> put(in_memory, conversation_id, data_json),
              redis_data |-> redis_data]

\* ConversationStorage.set: _in_memory and the durable store after the call.
\* redis_up says whether the durable store takes this write or raises.
ConversationStorage_set(conversation_id, context, redis_up) ==
    LET data_json == model_dump_json(context)
        key == "conv:" \o conversation_id
        put(f, k, v) == [i \in DOMAIN f \cup {k} |-> IF i = k THEN v ELSE f[i]]
    IN  [in_memory |-> put(in_memory, conversation_id, data_json),
         redis_data |-> IF storage.redis_enabled /\ redis_up
                        THEN put(redis_data, key,
                                 [value |-> data_json,
                                  expires_at |-> storage.now + CacheTtlSeconds])
                        ELSE redis_data]

(***************************************************************************)
(* Bounds and inputs.                                                      *)
(***************************************************************************)
MaxReq == 2         \* handle_query calls in flight at once (Spec)
MaxTurns == 2       \* handle_query calls started in a run of Spec
MaxTurnsSeq == 2    \* handle_query calls started in a run of SpecSeq
MaxTurnsLong == 7   \* handle_query calls started in a run of SpecLong

Reqs == 1..MaxReq

Providers == {"openai", "anthropic"}

\* the resolved user dicts handle_query is called with
Users ==
    {[id |-> 7, role |-> "manager", department |-> "general"],
     [id |-> 3, role |-> "employee", department |-> "general"]}

Queries == {"hi", "Jira sprint"}

SeqQueries == {"hi", "find the Jira sprint"}

\* conversation ids a client makes up itself
ClientIds == {"client-1"}

HttpReply(kind, body, exc, ms) == [kind |-> kind, body |-> body, exc |-> exc, ms |-> ms]

\* the registry's answers to GET /tools?role=
RegistryReplies(role) ==
    {HttpReply("json", [tools |-> list_tools(role)], None, 4),
     HttpReply("http_error", EmptyDict, "ConnectError", 30),
     HttpReply("not_json", EmptyDict, None, 4)}

AllRegistryReplies(role) ==
    RegistryReplies(role)
    \cup {HttpReply("http_error", EmptyDict, e, 30) : e \in HTTPErrors}
    \cup {HttpReply("json", EmptyDict, None, 4)}

\* the execution plane's ToolResponse bodies
ToolResponseOk(tool_name) ==
    [success |-> TRUE, tool_name |-> tool_name, result |-> "rows of " \o tool_name,
     error |-> None, execution_time_ms |-> 12]

ToolResponseFailed(tool_name) ==
    [success |-> FALSE, tool_name |-> tool_name, result |-> None,
     error |-> "Tool execution failed: backend down", execution_time_ms |-> 12]

\* the execution plane's answers to POST /tools/{name}
ToolReplies(tool_name) ==
    {HttpReply("json", ToolResponseOk(tool_name), None, 12),
     HttpReply("http_error", EmptyDict, "ReadTimeout", 30),
     HttpReply("not_json", EmptyDict, None, 12)}

AllToolReplies(tool_name) ==
    ToolReplies(tool_name)
    \cup {HttpReply("http_error", EmptyDict, e, 30) : e \in HTTPErrors}
    \cup {HttpReply("json", ToolResponseFailed(tool_name), None, 12),
          HttpReply("json", EmptyDict, None, 12)}

LLMReply(kind, texts, exc) == [kind |-> kind, texts |-> texts, exc |-> exc]

AnswerText == "You have 20 vacation days."

LLMReplies ==
    {LLMReply("response", <<AnswerText>>, None),
     LLMReply("error", <<>>, "APIConnectionError")}

LLMErrors == {"OpenAIError", "AuthenticationError", "RateLimitError", "APIConnectionError"}

AllLLMReplies ==
    LLMReplies
    \cup {LLMReply("error", <<>>, e) : e \in LLMErrors}
    \cup {LLMReply("response", <<>>, None),
          LLMReply("response", <<None>>, None),
          LLMReply("response", <<"">>, None),
          LLMReply("response", <<AnswerText, "Another choice.">>, None)}

(***************************************************************************)
(* The locals of one handle_query call.  pc is where the coroutine is:     *)
(*   idle      no call yet                                                 *)
(*   discover  suspended in await self.mcp_client.discover_tools           *)
(*   tools     suspended in await asyncio.gather of the tool tasks         *)
(*   llm       suspended in await self._call_llm                           *)
(*   returned  the call returned response; raised: it raised exc           *)
(* seen is history: the stored messages, and the turns completed on the    *)
(* conversation, when the call read context.messages for the prompt.       *)
(***************************************************************************)
NoReply == HttpReply("none", EmptyDict, None, 0)

NoExecution == ToolExecution(None, FALSE, None, None, 0)

PendingResult ==
    [done |-> FALSE, reply |-> NoReply, call |-> Returned(EmptyDict), exec |-> NoExecution]

NoResponse ==
    [answer |-> None, conversation_id |-> None, sources |-> <<>>,
     tools_used |-> <<>>, model_used |-> None]

IdleReq ==
    [pc |-> "idle",
     user |-> [id |-> 0, role |-> None, department |-> None],
     query |-> None, conversation_id |-> None, include_sources |-> FALSE,
     ctx |-> None, known_before |-> {},
     tools |-> <<>>, registry |-> NoReply, rag_context |-> None,
     tasks |-> <<>>, results |-> <<>>, arrival |-> <<>>,
     tools_used |-> <<>>, tool_results |-> <<>>, history |-> <<>>,
     seen |-> [messages |-> <<>>, completed |-> <<>>],
     at_start |-> <<>>,
     appended |-> FALSE,
     answer |-> None, response |-> NoResponse, exc |-> None]

NoCall == [fn |-> "none"]

OrchestratorInit ==
    /\ conversations = [i \in {} |-> ConversationContext(None)]
    /\ completedLog = [i \in {} |-> <<>>]
    /\ req = [r \in Reqs |-> IdleReq]
    /\ turns = 0
    /\ ai_provider \in Providers

\* ConversationStorage.__init__ with settings.redis_url unset: no durable store
StorageInit == [redis_enabled |-> FALSE, now |-> 0, last_set |-> << >>]

\* RAGService with an empty index and an empty documents table
IngestTasks == {1, 2}

IdleIngest == [pc |-> "idle", batch |-> 0, start_idx |-> 0, count |-> 0]

\* a semantic_search call that is not running
IdleSearch == [pc |-> "idle", found |-> <<>>, k |-> 0]

\* an initialized RAGService with an empty index and an empty documents table
RagInit == [index |-> <<>>, documents |-> {}, tasks |-> [t \in IngestTasks |-> IdleIngest],
            batches |-> 0, search |-> IdleSearch, searches |-> 0]

\* an empty token_blacklist table, no request made yet
AuthInit == [blacklist |-> {}, logged_out |-> {}, requests |-> 0,
             last |-> [kind |-> "none"]]

\* RateLimiter.__init__ at time 0
LimiterInit == [in_memory |-> << >>, last_cleanup |-> 0, now |-> 0, limit |-> 1,
                window |-> 60, calls |-> 0, allowed |-> << >>,
                last |-> [kind |-> "none"]]

\* no chunk_text call yet
ChunkerInit == [pc |-> "idle", words |-> <<>>, chunk_size |-> 0, overlap |-> 0,
                start |-> 0, chunks |-> <<>>, exc |-> None]

ServicesInit ==
    /\ in_memory = << >>
    /\ redis_data = << >>
    /\ storage = StorageInit
    /\ rag = RagInit
    /\ auth = AuthInit
    /\ limiter = LimiterInit
    /\ chunker = ChunkerInit

Init ==
    /\ OrchestratorInit
    /\ call = NoCall
    /\ ServicesInit

(***************************************************************************)
(* AIOrchestrator.handle_query.  asyncio runs one coroutine at a time and  *)
(* switches only at an await, so each action below is the code from one    *)
(* await to the next.                                                      *)
(***************************************************************************)
HistoryWindow == 10     \* context.messages[-10:]

\* A slip: the window is counted in turns, not in messages.
ConversationHistory_in_turns(context) == LastN(context.messages, 2 * HistoryWindow)

\* conversation_history=context.messages[-10:]
ConversationHistory(context) == LastN(context.messages, HistoryWindow)

\* A slip: the permission check of the loop is left out.
SelectedTools_unchecked(tools, query, user_role) ==
    SelectInOrder(tools, {t \in Range(tools) : should_use(t, query)})

\* the tools handle_query makes a task for, in the order of the discovered list
SelectedTools(tools, query, user_role) ==
    SelectInOrder(tools, {t \in Range(tools) :
                             should_use(t, query) /\ can_access_tool(user_role, t)})

\* A slip: the success test of the loop is left out.
AllResults(execs) == [i \in 1..Len(execs) |-> [tool |-> execs[i].tool_name,
                                               data |-> execs[i].result]]

\* tool_results: one {"tool", "data"} per successful ToolExecution, in order
RECURSIVE SuccessfulResults(_)
SuccessfulResults(execs) ==
    IF execs = <<>> THEN <<>>
    ELSE (IF Head(execs).success
          THEN <<[tool |-> Head(execs).tool_name, data |-> Head(execs).result]>>
          ELSE <<>>) \o SuccessfulResults(Tail(execs))

\* A slip: this turn's ToolExecution records are not stored.
UpdateConversation_no_tools(context, query, answer, tools_used) ==
    [context EXCEPT
        !.messages = Append(Append(@, Message("user", query)),
                            Message("assistant", answer))]

\* Step 5: the two appends and the extend
UpdateConversation(context, query, answer, tools_used) ==
    [context EXCEPT
        !.messages = Append(Append(@, Message("user", query)),
                            Message("assistant", answer)),
        !.tools_used = @ \o tools_used]

\* "Build sources from RAG results".  rag_service.semantic_search is a
\* coroutine function and is called without await: rag_results is a coroutine
\* object and rag_results[:3] raises TypeError.
DeriveSources(include_sources) ==
    IF include_sources THEN Raised("TypeError") ELSE Returned(<<>>)

ModelUsed == IF ai_provider = "openai" THEN "settings.openai_model"
             ELSE "settings.anthropic_model"

\* the locals are gone once the call has returned or raised; what stays is
\* what the caller got and, for the properties, which call it was
Finished(rq, pc, exc, answer, appended, response) ==
    [IdleReq EXCEPT
        !.pc = pc, !.exc = exc, !.user = rq.user, !.query = rq.query,
        !.conversation_id = rq.conversation_id,
        !.include_sources = rq.include_sources,
        !.ctx = rq.ctx, !.known_before = rq.known_before,
        !.answer = answer, !.appended = appended, !.response = response]

\* lines 97-114: resolve the conversation, send the discovery request
Start(r, user, query, conversation_id, include_sources, limit) ==
    /\ req[r].pc \in {"idle", "returned", "raised"}
    /\ turns < limit
    /\ LET g == get_or_create_conversation(conversation_id)
       IN  /\ conversations' = g.store
           /\ completedLog' = [i \in DOMAIN g.store |->
                                  IF i \in DOMAIN completedLog THEN completedLog[i]
                                  ELSE <<>>]
           /\ req' = [req EXCEPT ![r] =
                        [IdleReq EXCEPT
                            !.pc = "discover", !.user = user, !.query = query,
                            !.conversation_id = conversation_id,
                            !.include_sources = include_sources,
                            !.ctx = g.id,
                            !.at_start = g.store[g.id].messages,
                            !.known_before = DOMAIN conversations]]
    /\ turns' = turns + 1
    /\ UNCHANGED <<call, ai_provider, services>>

\* lines 114-187 when no tool is selected, lines 114-168 otherwise
Discover(r, reply) ==
    /\ req[r].pc = "discover"
    /\ LET rq == req[r]
           d == discover_tools(rq.user.role, reply)
           tasks == SelectedTools(d.value, rq.query, rq.user.role)
       IN  IF d.raised
           THEN req' = [req EXCEPT ![r] =
                            [Finished(rq, "raised", d.exc, None, FALSE, NoResponse)
                                EXCEPT !.registry = reply]]
           ELSE IF tasks = <<>>
           THEN req' = [req EXCEPT
                    ![r].pc = "llm", ![r].tools = d.value, ![r].registry = reply,
                    ![r].rag_context = "<coroutine object RAGService.build_context>",
                    ![r].history = ConversationHistory(conversations[rq.ctx]),
                    ![r].seen = [messages |-> conversations[rq.ctx].messages,
                                 completed |-> completedLog[rq.ctx]]]
           ELSE req' = [req EXCEPT
                    ![r].pc = "tools", ![r].tools = d.value, ![r].registry = reply,
                    ![r].rag_context = "<coroutine object RAGService.build_context>",
                    ![r].tasks = tasks,
                    ![r].results = [i \in 1..Len(tasks) |-> PendingResult]]
    /\ UNCHANGED <<call, conversations, turns, completedLog, ai_provider, services>>

\* one execute_tool_safe task runs to its end (lines 127-155)
ToolDone(r, i, reply) ==
    /\ req[r].pc = "tools"
    /\ i \in 1..Len(req[r].tasks)
    /\ ~req[r].results[i].done
    /\ LET name == req[r].tasks[i]
           e == execute_tool_safe(name, reply)
       IN  IF e.raised
           THEN req' = [req EXCEPT ![r] =
                            Finished(req[r], "raised", e.exc, None, FALSE, NoResponse)]
           ELSE req' = [req EXCEPT
                            ![r].results[i] = [done |-> TRUE, reply |-> reply,
                                               call |-> call_tool(name, reply),
                                               exec |-> e.value],
                            ![r].arrival = Append(@, i)]
    /\ UNCHANGED <<call, conversations, turns, completedLog, ai_provider, services>>

\* gather returns: lines 169-187
Join(r) ==
    /\ req[r].pc = "tools"
    /\ \A i \in 1..Len(req[r].tasks) : req[r].results[i].done
    /\ LET rq == req[r]
           results == [i \in 1..Len(rq.tasks) |-> rq.results[i].exec]
       IN  req' = [req EXCEPT
                    ![r].pc = "llm",
                    ![r].tools_used = results,
                    ![r].tool_results = SuccessfulResults(results),
                    ![r].history = ConversationHistory(conversations[rq.ctx]),
                    ![r].seen = [messages |-> conversations[rq.ctx].messages,
                                 completed |-> completedLog[rq.ctx]]]
    /\ UNCHANGED <<call, conversations, turns, completedLog, ai_provider, services>>

\* _call_llm returns: lines 187-224
LLMDone(r, reply) ==
    /\ req[r].pc = "llm"
    /\ LET rq == req[r]
           a == _call_llm(ai_provider, reply)
           s == DeriveSources(rq.include_sources)
           updated == UpdateConversation(conversations[rq.ctx], rq.query, a.value,
                                         rq.tools_used)
       IN  IF a.raised
           THEN /\ req' = [req EXCEPT ![r] =
                            Finished(rq, "raised", a.exc, None, FALSE, NoResponse)]
                /\ UNCHANGED <<conversations, completedLog>>
           ELSE /\ conversations' = [conversations EXCEPT ![rq.ctx] = updated]
                /\ IF s.raised
                   THEN /\ req' = [req EXCEPT ![r] =
                                    Finished(rq, "raised", s.exc, a.value, TRUE, NoResponse)]
                        /\ UNCHANGED completedLog
                   ELSE /\ req' = [req EXCEPT ![r] =
                                    Finished(rq, "returned", None, a.value, TRUE,
                                        [answer |-> a.value,
                                         conversation_id |-> updated.conversation_id,
                                         sources |-> s.value,
                                         tools_used |-> rq.tools_used,
                                         model_used |-> ModelUsed])]
                        /\ completedLog' = [completedLog EXCEPT
                                ![rq.ctx] = Append(@, <<rq.query, a.value>>)]
    /\ UNCHANGED <<call, turns, ai_provider, services>>

\* the conversation ids a client can send: none, one of its own, one it was given
SuppliedIds == {None} \cup ClientIds \cup DOMAIN conversations

Next ==
    \E r \in Reqs :
        \/ \E user \in Users, query \in Queries, id \in SuppliedIds, inc \in BOOLEAN :
                Start(r, user, query, id, inc, MaxTurns)
        \/ \E reply \in RegistryReplies(req[r].user.role) : Discover(r, reply)
        \/ \E i \in 1..Len(req[r].tasks) :
                \E reply \in ToolReplies(req[r].tasks[i]) : ToolDone(r, i, reply)
        \/ Join(r)
        \/ \E reply \in LLMReplies : LLMDone(r, reply)

Spec == Init /\ [][Next]_vars

(***************************************************************************)
(* SpecFn: the pure functions, each applied to inputs drawn from a bounded *)
(* set.  call records the last application.                                *)
(***************************************************************************)
RoleInputs == {"admin", "manager", "employee", "Admin", "unknown_role"}

ToolInputs == Range(TOOLS) \cup {"unknown_tool"}

UserDepartmentInputs ==
    {"engineering", "hr", "finance", "sales", "admin", "HR", "Engineering",
     "marketing", "general", "public"}

DocumentDepartmentInputs ==
    {"engineering", "hr", "finance", "sales", "admin", "HR", "marketing",
     "general", "public", "Public", "*"}

OrchestratorUnchanged ==
    UNCHANGED <<conversations, req, turns, completedLog, ai_provider, services>>

FnCanAccessTool ==
    /\ \E role \in RoleInputs, tool_name \in ToolInputs :
          call' = [fn |-> "can_access_tool", role |-> role, tool_name |-> tool_name,
                   result |-> can_access_tool(role, tool_name)]
    /\ OrchestratorUnchanged

FnCanAccessDepartmentDocs ==
    /\ \E ud \in UserDepartmentInputs, ur \in {"admin", "manager", "employee"},
          dd \in DocumentDepartmentInputs :
          call' = [fn |-> "can_access_department_docs", user_department |-> ud,
                   user_role |-> ur, document_department |-> dd,
                   result |-> can_access_department_docs(ud, ur, dd)]
    /\ OrchestratorUnchanged

FnCallLLM ==
    /\ \E provider \in Providers, reply \in AllLLMReplies :
          call' = [fn |-> "_call_llm", provider |-> provider, reply |-> reply,
                   result |-> _call_llm(provider, reply)]
    /\ OrchestratorUnchanged

FnDiscoverTools ==
    /\ \E role \in RoleInputs :
          \E reply \in AllRegistryReplies(role) :
              call' = [fn |-> "discover_tools", role |-> role, reply |-> reply,
                       result |-> discover_tools(role, reply)]
    /\ OrchestratorUnchanged

FnExecuteToolSafe ==
    /\ \E tool_name \in ToolInputs :
          \E reply \in AllToolReplies(tool_name) :
              call' = [fn |-> "execute_tool_safe", tool_name |-> tool_name,
                       reply |-> reply, called |-> call_tool(tool_name, reply),
                       result |-> execute_tool_safe(tool_name, reply)]
    /\ OrchestratorUnchanged

\* user_id: None, the orchestrator's default 0 for a user without id, an id
UserIdInputs == {NoUserId, UserId(0), UserId(7)}

FnCallTool ==
    /\ \E tool_name \in ToolInputs, user_id \in UserIdInputs :
          \E reply \in AllToolReplies(tool_name) :
              call' = [fn |-> "call_tool", tool_name |-> tool_name, reply |-> reply,
                       user_id |-> user_id, result |-> call_tool(tool_name, reply),
                       audit |-> call_tool_audit(tool_name, reply, user_id)]
    /\ OrchestratorUnchanged

NextFn ==
    \/ FnCanAccessTool
    \/ FnCanAccessDepartmentDocs
    \/ FnCallLLM
    \/ FnDiscoverTools
    \/ FnExecuteToolSafe
    \/ FnCallTool

SpecFn == Init /\ [][NextFn]_vars

(***************************************************************************)
(* C1.  Tool permission is fail-closed: can_access_tool(r, t) is true      *)
(* exactly when r is one of admin, manager, employee as spelled and t is   *)
(* in the permitted set of r; unknown roles, other spellings ("Admin")     *)
(* and unknown tools are denied.                                           *)
(***************************************************************************)
C1_ToolPermissionFailClosed ==
    call.fn = "can_access_tool" =>
        (call.result <=>
            /\ call.role \in {"admin", "manager", "employee"}
            /\ call.tool_name \in ROLE_TOOL_PERMISSIONS[call.role])

C1_Witness ==
    /\ call.fn = "can_access_tool"
    /\ call.role = "Admin"
    /\ call.tool_name = "search_documents"
    /\ ~call.result

(***************************************************************************)
(* C2 as claimed: for a non-admin requester, department documents are      *)
(* visible iff the document department equals the requester's (ignoring    *)
(* case), or is public or general, or the requester's allow-set holds the  *)
(* wildcard -- also for requester departments absent from the table.       *)
(***************************************************************************)
C2_Original ==
    (call.fn = "can_access_department_docs" /\ call.user_role # "admin") =>
        (call.result <=>
            \/ Lower(call.document_department) = Lower(call.user_department)
            \/ Lower(call.document_department) \in {"public", "general"}
            \/ Lower(call.user_department) = "admin")

(***************************************************************************)
(* C2 as amended: for a non-admin requester whose department (ignoring     *)
(* case) is engineering, hr, finance or sales, a document is visible iff   *)
(* its department equals the requester's or is public or general; for the  *)
(* department admin every document is visible; for any other requester     *)
(* department a document is visible iff its department is public.          *)
(***************************************************************************)
C2_DepartmentVisibility ==
    (call.fn = "can_access_department_docs" /\ call.user_role # "admin") =>
        LET ud == Lower(call.user_department)
            dd == Lower(call.document_department)
        IN  call.result <=>
                IF ud \in {"engineering", "hr", "finance", "sales"}
                THEN dd = ud \/ dd \in {"public", "general"}
                ELSE IF ud = "admin" THEN TRUE
                ELSE dd = "public"

C2_Witness ==
    /\ call.fn = "can_access_department_docs"
    /\ call.user_role = "employee"
    /\ call.user_department = "marketing"
    /\ call.document_department = "general"
    /\ ~call.result

(***************************************************************************)
(* C3 as claimed: whatever the handled collaborator failures (registry     *)
(* unreachable, tool calls failing or timing out, LLM provider error),     *)
(* handle_query returns a response whose answer is a non-empty string and  *)
(* never ends in a raised fault.  A registry answer that is not JSON is    *)
(* not among the handled failures and is left out.                         *)
(***************************************************************************)
C3_Original ==
    \A r \in Reqs :
        /\ req[r].pc = "raised" => req[r].registry.kind = "not_json"
        /\ req[r].pc = "returned" =>
                /\ req[r].response.answer # None
                /\ Len(req[r].response.answer) > 0

(***************************************************************************)
(* C4 as claimed: every failure of one tool invocation (network error,     *)
(* timeout, non-2xx status, malformed response body) comes out of          *)
(* call_tool as a failed result with success false and a non-null error,   *)
(* and out of the wrapper as a ToolExecution with success false and a      *)
(* non-null error; nothing is raised.                                      *)
(***************************************************************************)
C4_Original ==
    (/\ call.fn = "execute_tool_safe"
     /\ \/ call.reply.kind \in {"http_error", "not_json"}
        \/ "success" \notin DOMAIN call.reply.body) =>
        /\ ~call.called.raised
        /\ call.called.value.success = FALSE
        /\ call.called.value.error # None
        /\ ~call.result.raised
        /\ call.result.value.success = FALSE
        /\ call.result.value.error # None

(***************************************************************************)
(* C5.  _call_llm never raises; when the provider fails (client            *)
(* construction, authentication, rate limit, network) or its response is   *)
(* malformed (no choice or content block, or for Anthropic a first block   *)
(* without text) it returns the degraded-answer template followed by the   *)
(* error text.                                                             *)
(***************************************************************************)
C5_LLMNeverRaises ==
    call.fn = "_call_llm" =>
        /\ ~call.result.raised
        /\ call.reply.kind = "error" =>
                call.result.value = DegradedPrefix \o ExcText(call.reply.exc)
        /\ (call.reply.kind = "response" /\ call.reply.texts = <<>>) =>
                call.result.value = DegradedPrefix \o "list index out of range"
        /\ (call.reply.kind = "response" /\ call.reply.texts # <<>>
            /\ call.provider = "anthropic" /\ call.reply.texts[1] = None) =>
                /\ Len(call.result.value) >= Len(DegradedPrefix)
                /\ call.result.value = DegradedPrefix \o ExcText("AttributeError")

C5_Witness ==
    /\ call.fn = "_call_llm"
    /\ call.provider = "openai"
    /\ call.reply.kind = "error"
    /\ call.reply.exc = "APIConnectionError"
    /\ call.result.value = DegradedPrefix \o "Connection error."

(***************************************************************************)
(* SpecSeq: one client in one conversation, each handle_query awaited      *)
(* before the next.  Its first query carries no conversation id, every     *)
(* later one carries the id it was given.  The registry answers in every   *)
(* way discover_tools distinguishes.                                       *)
(***************************************************************************)
Manager == [id |-> 7, role |-> "manager", department |-> "general"]

SessionIds == IF DOMAIN conversations = {} THEN {None} ELSE DOMAIN conversations

NextSeq ==
    \/ \E query \in SeqQueries, id \in SessionIds, inc \in BOOLEAN :
            Start(1, Manager, query, id, inc, MaxTurnsSeq)
    \/ \E reply \in AllRegistryReplies(req[1].user.role) : Discover(1, reply)
    \/ \E i \in 1..Len(req[1].tasks) :
            \E reply \in ToolReplies(req[1].tasks[i]) : ToolDone(1, i, reply)
    \/ Join(1)
    \/ \E reply \in LLMReplies : LLMDone(1, reply)

SpecSeq == Init /\ [][NextSeq]_vars

(***************************************************************************)
(* SpecLong: the same client with a query no tool matches, so that each    *)
(* call goes from discovery to the LLM, for MaxTurnsLong turns.            *)
(***************************************************************************)
NextLong ==
    \/ \E id \in SessionIds, inc \in BOOLEAN :
            Start(1, Manager, "hi", id, inc, MaxTurnsLong)
    \/ \E reply \in RegistryReplies(req[1].user.role) : Discover(1, reply)
    \/ \E reply \in LLMReplies : LLMDone(1, reply)

SpecLong == Init /\ [][NextLong]_vars

\* the messages a list of completed turns left behind, in order
RECURSIVE FlattenTurns(_)
FlattenTurns(log) ==
    IF log = <<>> THEN <<>>
    ELSE <<Message("user", Head(log)[1]), Message("assistant", Head(log)[2])>>
            \o FlattenTurns(Tail(log))

\* a's elements occur in b in a's order
RECURSIVE IsSubsequence(_, _)
IsSubsequence(a, b) ==
    IF a = <<>> THEN TRUE
    ELSE IF b = <<>> THEN FALSE
    ELSE IF Head(a) = Head(b) THEN IsSubsequence(Tail(a), Tail(b))
    ELSE IsSubsequence(a, Tail(b))

(***************************************************************************)
(* C6.  Whenever the capability registry fails at the transport level      *)
(* (connection refused, timeout, non-2xx status), discover_tools does not  *)
(* raise and returns the one-element list [search_documents]; the call     *)
(* goes on to tool selection and the LLM with that list, and the only      *)
(* tool it can run is search_documents.                                    *)
(***************************************************************************)
C6_DiscoveryFallback ==
    \A r \in Reqs :
        req[r].registry.kind = "http_error" =>
            /\ req[r].pc \in {"tools", "llm"}
            /\ req[r].tools = <<"search_documents">>
            /\ Range(req[r].tasks) \subseteq {"search_documents"}

C6_Witness ==
    \E r \in Reqs :
        /\ req[r].registry.kind = "http_error"
        /\ req[r].registry.exc = "HTTPStatusError"
        /\ req[r].pc = "llm"
        /\ Len(req[r].tools_used) = 1
        /\ req[r].tools_used[1].tool_name = "search_documents"
        /\ req[r].tools_used[1].success

(***************************************************************************)
(* C7 as claimed: a later query that supplies the conversation id is       *)
(* handled with a history that contains, in order, the user and assistant  *)
(* messages of every earlier completed turn on that id.                    *)
(***************************************************************************)
C7_Original ==
    \A r \in Reqs :
        (req[r].pc = "llm" /\ req[r].conversation_id # None) =>
            IsSubsequence(FlattenTurns(req[r].seen.completed), req[r].history)

(***************************************************************************)
(* C7 as amended: a query with no conversation id gets a newly generated   *)
(* id, unknown before the call, and its response carries it; a later query *)
(* that supplies the id is handled on that conversation, whose stored      *)
(* messages contain in order the messages of every earlier completed turn, *)
(* with a history that is the last HistoryWindow stored messages -- so     *)
(* the history holds every earlier completed turn only while the           *)
(* conversation has at most HistoryWindow stored messages.                 *)
(***************************************************************************)
C7_ConversationContinuity ==
    \A r \in Reqs :
        LET rq == req[r]
            stored == rq.seen.messages
            n == IF Len(stored) < HistoryWindow THEN Len(stored) ELSE HistoryWindow
        IN  /\ (rq.pc # "idle" /\ rq.conversation_id = None) =>
                    /\ rq.ctx \in GenIds
                    /\ rq.ctx \notin rq.known_before
                    /\ rq.ctx \in DOMAIN conversations
            /\ (rq.pc # "idle" /\ rq.conversation_id # None) =>
                    rq.ctx = rq.conversation_id
            /\ rq.pc = "returned" => rq.response.conversation_id = rq.ctx
            /\ rq.pc = "llm" =>
                    /\ IsSubsequence(FlattenTurns(rq.seen.completed), stored)
                    /\ Len(rq.history) = n
                    /\ \A k \in 1..n : rq.history[k] = stored[Len(stored) - n + k]
                    /\ Len(stored) <= HistoryWindow =>
                            IsSubsequence(FlattenTurns(rq.seen.completed), rq.history)

C7_Witness ==
    \E r \in Reqs :
        /\ req[r].pc = "llm"
        /\ req[r].conversation_id = "uuid-1"
        /\ Len(req[r].seen.completed) >= 6
        /\ Len(req[r].history) = HistoryWindow
        /\ Len(req[r].seen.messages) > HistoryWindow
        /\ req[r].history[1] = req[r].seen.messages[3]
        /\ req[r].seen.completed[1][2] # req[r].seen.completed[2][2]

(***************************************************************************)
(* C8 as claimed: on every conversation the stored messages are exactly    *)
(* the completed queries' pairs -- twice as many messages as completed     *)
(* queries, user then assistant, each pair that query's text and answer.   *)
(***************************************************************************)
C8_Original ==
    \A c \in DOMAIN conversations :
        /\ Len(conversations[c].messages) = 2 * Len(completedLog[c])
        /\ conversations[c].messages = FlattenTurns(completedLog[c])

(***************************************************************************)
(* C9 as claimed: once handle_query has returned for conversation c,       *)
(* ConversationStorage.get(c) finds a context whose messages end with      *)
(* this turn's user message and answer and whose tool records include      *)
(* this turn's ToolExecution records.                                      *)
(***************************************************************************)
C9_Original ==
    \A r \in Reqs :
        req[r].pc = "returned" =>
            LET got == ConversationStorage_get(req[r].ctx, TRUE)
            IN  /\ got.found
                /\ LastN(got.context.messages, 2)
                      = <<Message("user", req[r].query),
                          Message("assistant", req[r].response.answer)>>
                /\ Range(req[r].response.tools_used)
                      \subseteq Range(got.context.tools_used)

\* what a list gained: the elements of new after the first Len(old)
AppendedTail(new, old) == SubSeq(new, Len(old) + 1, Len(new))

MaxStoreTicks == 3      \* clock steps in a run of SpecStore

StoreIds == {"c1", "c2"}

\* the contexts a caller stores under an id
StoreContexts(id) ==
    {UpdateConversation(ConversationContext(id), "hi", AnswerText, <<>>),
     UpdateConversation(ConversationContext(id), "Jira sprint", AnswerText,
        <<ToolExecution("search_jira", TRUE, "rows of search_jira", None, 12)>>)}

InitStore ==
    /\ OrchestratorInit
    /\ call = NoCall
    /\ in_memory = << >>
    /\ redis_data = << >>
    /\ storage \in {[StorageInit EXCEPT !.redis_enabled = b] : b \in BOOLEAN}
    /\ rag = RagInit
    /\ auth = AuthInit
    /\ limiter = LimiterInit
    /\ chunker = ChunkerInit

StoreUnchanged ==
    UNCHANGED <<conversations, req, turns, completedLog, ai_provider, rag, auth,
                limiter, chunker>>

\* conversation_storage.set(conversation_id, context)
StoreSet(conversation_id, context, redis_up) ==
    /\ LET s == ConversationStorage_set(conversation_id, context, redis_up)
       IN  /\ in_memory' = s.in_memory
           /\ redis_data' = s.redis_data
    /\ storage' = [storage EXCEPT !.last_set =
                        [i \in DOMAIN @ \cup {conversation_id} |->
                            IF i = conversation_id
                            THEN [context |-> context, at |-> storage.now]
                            ELSE @[i]]]
    /\ call' = [fn |-> "ConversationStorage.set", conversation_id |-> conversation_id,
                context |-> context, redis_up |-> redis_up]
    /\ StoreUnchanged

\* conversation_storage.get(conversation_id); the record keeps what was last
\* set for the id and whether that was within the time-to-live
StoreGet(conversation_id, redis_up) ==
    /\ call' = [fn |-> "ConversationStorage.get", conversation_id |-> conversation_id,
                redis_up |-> redis_up,
                result |-> ConversationStorage_get(conversation_id, redis_up),
                durable |-> IF storage.redis_enabled /\ redis_up
                            THEN RedisGet("conv:" \o conversation_id) ELSE None,
                was_set |-> conversation_id \in DOMAIN storage.last_set,
                last_set |-> IF conversation_id \in DOMAIN storage.last_set
                             THEN storage.last_set[conversation_id].context
                             ELSE ConversationContext(conversation_id),
                age |-> IF conversation_id \in DOMAIN storage.last_set
                        THEN storage.now - storage.last_set[conversation_id].at
                        ELSE 0]
    /\ UNCHANGED <<in_memory, redis_data, storage>>
    /\ StoreUnchanged

StoreTick ==
    /\ storage.now < MaxStoreTicks * (CacheTtlSeconds \div 2)
    /\ storage' = [storage EXCEPT !.now = @ + (CacheTtlSeconds \div 2)]
    /\ UNCHANGED <<call, in_memory, redis_data>>
    /\ StoreUnchanged

NextStore ==
    \/ \E id \in StoreIds, redis_up \in BOOLEAN :
            \E context \in StoreContexts(id) : StoreSet(id, context, redis_up)
    \/ \E id \in StoreIds, redis_up \in BOOLEAN : StoreGet(id, redis_up)
    \/ StoreTick

SpecStore == InitStore /\ [][NextStore]_vars

(***************************************************************************)
(* C11 as claimed: whatever the durable store does (not configured,        *)
(* healthy, failing on a write, failing on a read, in any interleaving), a *)
(* get(id) after a set(id, ctx), with no later set(id) and within the      *)
(* time-to-live, returns a context equal to ctx.                           *)
(***************************************************************************)
C11_Original ==
    (/\ call.fn = "ConversationStorage.get"
     /\ call.was_set
     /\ call.age < CacheTtlSeconds) =>
        /\ call.result.found
        /\ call.result.context = call.last_set


(***************************************************************************)
(* RAG retrieval.  Numbers that are floats in the code are fixed-point     *)
(* here: a distance or a score s is the integer s * ScoreScale.  A Python  *)
(* str the code measures or slices is the tuple of its characters.         *)
(***************************************************************************)
ScoreScale == 10000

VectorSearchTopK == 5       \* settings.vector_search_top_k

\* a str of n characters
Text(n) == [i \in 1..n |-> <<"a", "b", "c", "d", "e", "f", "g">>[(i % 7) + 1]]

\* score = 1 / (1 + dist)
Score(dist) == (ScoreScale * ScoreScale) \div (ScoreScale + dist)

\* s[:n]
FirstN(s, n) == IF Len(s) <= n THEN s ELSE SubSeq(s, 1, n)

\* self._index.search(query_embedding, k): the k nearest vectors of the
\* ranking (all vectors by ascending distance to the query), as (idx, dist)
IndexSearch(ranking, k) == FirstN(ranking, k)

\* docs_by_id = {doc.vector_id: doc for doc in db_docs}
DocsById(documents, ids) ==
    {d \in Range(documents) : d.vector_id \in ids}

\* the loop of lines 127-153 over found_indices, in the index's order
RECURSIVE CollectResults(_, _, _, _, _, _)
CollectResults(found, db_docs, top_k, department, min_score, results) ==
    IF found = <<>> \/ (results # <<>> /\ Len(results) >= top_k) THEN results
    ELSE LET hit == Head(found)
             docs == {d \in db_docs : d.vector_id = hit.idx}
             doc == CHOOSE d \in docs : TRUE
             score == Score(hit.dist)
             keep == /\ docs # {}
                     /\ ~(score < min_score)
                     /\ (department \notin {None, "", "*"}) =>
                            doc.department \in {department, "public", "general"}
         IN  CollectResults(Tail(found), db_docs, top_k, department, min_score,
                IF keep
                THEN Append(results, [content |-> doc.content, title |-> doc.title,
                                      department |-> doc.department,
                                      source |-> doc.source, score |-> score,
                                      index |-> hit.idx])
                ELSE results)

\* the argument top_k: an int, or None when the caller leaves it out
TopK(value) == [given |-> TRUE, value |-> value]
NoTopK == [given |-> FALSE, value |-> 0]

\* RAGService.semantic_search on an initialized service: ranking is the
\* index's order for the query (empty for an empty index), documents the table
semantic_search(ranking, documents, top_k, department, min_score) ==
    IF ranking = <<>> THEN Returned(<<>>)
    ELSE LET k == IF ~top_k.given \/ top_k.value = 0 THEN VectorSearchTopK
                  ELSE top_k.value
             n == IF k * 2 < Len(ranking) THEN k * 2 ELSE Len(ranking)
         IN  IF n <= 0 THEN Raised("AssertionError")
             ELSE LET found == IndexSearch(ranking, n)
                      db_docs == DocsById(documents, {found[i].idx : i \in 1..Len(found)})
                  IN  Returned(CollectResults(found, db_docs, k, department,
                                              min_score, <<>>))


\* round(score, 4) of the score 1 / (1 + dist)
RoundedScore(dist) ==
    (2 * ScoreScale * ScoreScale + (ScoreScale + dist)) \div (2 * (ScoreScale + dist))

\* str.lower() on the department spellings the inputs use
LowerDept(s) ==
    CASE s = "HR" -> "hr" [] s = "Engineering" -> "engineering" [] s = "ALL" -> "all"
      [] OTHER -> s

TOP_K == 5      \* vector-store/search.py TOP_K

\* the loop of vector-store/search.py lines 80-111 over the hits
RECURSIVE VectorStoreCollect(_, _, _, _, _, _)
VectorStoreCollect(hits, docs, department, top_k, min_score, results) ==
    IF hits = <<>> \/ (results # <<>> /\ Len(results) >= top_k) THEN results
    ELSE LET hit == Head(hits)
             known == hit.idx >= 0 /\ hit.idx < Len(docs)
             doc == docs[hit.idx + 1]
             keep == /\ known
                     /\ ~(Score(hit.dist) < min_score)
                     /\ (department \notin {None, ""} /\ LowerDept(department) # "all") =>
                            LowerDept(Get(doc, "department", "general"))
                                \in {"public", "general", LowerDept(department)}
         IN  VectorStoreCollect(Tail(hits), docs, department, top_k, min_score,
                IF keep
                THEN Append(results, [content |-> Get(doc, "content", <<>>),
                                      title |-> Get(doc, "title", "Untitled"),
                                      department |-> Get(doc, "department", "general"),
                                      source |-> Get(doc, "source", "unknown"),
                                      score |-> RoundedScore(hit.dist),
                                      index |-> hit.idx])
                ELSE results)

\* vector-store/search.py semantic_search with the resources loaded: docs is
\* the pickled list, ranking the index's order for the query
vector_store_semantic_search(ranking, docs, department, top_k, min_score) ==
    IF ranking = <<>> THEN Returned(<<>>)
    ELSE LET search_k == IF top_k * 3 < Len(ranking) THEN top_k * 3 ELSE Len(ranking)
         IN  IF search_k <= 0 THEN Raised("AssertionError")
             ELSE Returned(VectorStoreCollect(IndexSearch(ranking, search_k), docs,
                                              department, top_k, min_score, <<>>))

(***************************************************************************)
(* SpecRag: the two searches applied to a small corpus.  The ranking is    *)
(* the vector index's answer for the query: every vector by ascending      *)
(* distance.                                                               *)
(***************************************************************************)
Doc(vector_id, department, content) ==
    [vector_id |-> vector_id, title |-> "Doc", content |-> content,
     department |-> department, source |-> "handbook.md"]

\* the documents table, by vector_id 0..5
Documents ==
    <<Doc(0, "engineering", Text(20)), Doc(1, "public", Text(20)),
      Doc(2, "hr", Text(20)), Doc(3, "general", Text(20)),
      Doc(4, "HR", Text(20)), Doc(5, "finance", Text(20))>>

Hit(idx, dist) == [idx |-> idx, dist |-> dist]

Ranking ==
    <<Hit(2, 0), Hit(0, 1000), Hit(5, 2500), Hit(1, 2500), Hit(4, 9000), Hit(3, 30000)>>

\* index and table: empty; in step; the index one vector ahead of the table
Corpora ==
    {[ranking |-> <<>>, documents |-> <<>>],
     [ranking |-> Ranking, documents |-> Documents],
     [ranking |-> Ranking, documents |-> SubSeq(Documents, 1, 5)]}

TopKInputs == {-1, 0, 1, 2, 3}

DepartmentFilters == {None, "", "*", "all", "engineering", "hr", "HR"}

MinScoreInputs == {0, 5000, 9000}

RagUnchanged ==
    UNCHANGED <<conversations, req, turns, completedLog, ai_provider, services>>

FnSemanticSearch ==
    /\ \E corpus \in Corpora, top_k \in {TopK(k) : k \in TopKInputs} \cup {NoTopK},
          department \in DepartmentFilters, min_score \in MinScoreInputs :
          call' = [fn |-> "semantic_search", corpus |-> corpus, top_k |-> top_k,
                   department |-> department, min_score |-> min_score,
                   result |-> semantic_search(corpus.ranking, corpus.documents, top_k,
                                              department, min_score)]
    /\ RagUnchanged

FnVectorStoreSearch ==
    /\ \E corpus \in Corpora, top_k \in TopKInputs,
          department \in DepartmentFilters, min_score \in MinScoreInputs :
          call' = [fn |-> "vector_store_semantic_search", corpus |-> corpus,
                   top_k |-> top_k, department |-> department, min_score |-> min_score,
                   result |-> vector_store_semantic_search(
                                    corpus.ranking, corpus.documents, department,
                                    top_k, min_score)]
    /\ RagUnchanged

\* the distance the index reported for a vector
DistanceOf(ranking, idx) ==
    ranking[CHOOSE i \in 1..Len(ranking) : ranking[i].idx = idx].dist

(***************************************************************************)
(* C12 as claimed: semantic_search(query, top_k=k, ...) returns at most k  *)
(* results, each with a score in (0,1] that is 1/(1+distance) of its       *)
(* vector, in non-increasing score order.                                  *)
(***************************************************************************)
C12_Original ==
    (/\ call.fn = "semantic_search"
     /\ call.top_k.given
     /\ call.top_k.value >= 0
     /\ ~call.result.raised) =>
        LET results == call.result.value
        IN  /\ Len(results) <= call.top_k.value
            /\ \A i \in 1..Len(results) :
                    /\ results[i].score > 0
                    /\ results[i].score <= ScoreScale
                    /\ results[i].score =
                         Score(DistanceOf(call.corpus.ranking, results[i].index))
            /\ \A i \in 1..(Len(results) - 1) : results[i].score >= results[i + 1].score


(***************************************************************************)
(* RAGService.build_context.  The strings it measures and joins are        *)
(* sequences of characters, so len() is Len and the f-string is a          *)
(* concatenation of its pieces.                                            *)
(***************************************************************************)
Digits == <<"0", "1", "2", "3", "4", "5", "6", "7", "8", "9">>

\* str(n) of a natural number
RECURSIVE Str(_)
Str(n) == IF n < 10 THEN <<Digits[n + 1]>> ELSE Str(n \div 10) \o <<Digits[(n % 10) + 1]>>

\* f"{score:.2f}" of a score in (0, 1] held in units of 1/ScoreScale
Format2f(score) ==
    LET hundredths == (score * 100 + ScoreScale \div 2) \div ScoreScale
    IN  Str(hundredths \div 100) \o <<".">> \o
        <<Digits[((hundredths \div 10) % 10) + 1], Digits[(hundredths % 10) + 1]>>

NoRelevantDocuments ==
    <<"N", "o", " ", "r", "e", "l", "e", "v", "a", "n", "t", " ",
      "d", "o", "c", "u", "m", "e", "n", "t", "s", " ", "f", "o", "u", "n", "d", ".">>

TitleChars(title) == IF title = "Doc" THEN <<"D", "o", "c">> ELSE <<"?">>

ContentLimit == 1000

Ellipsis == <<".", ".", ".">>

\* content = content[:1000] + "..." when longer than 1000
TruncatedContent(content) ==
    IF Len(content) > ContentLimit THEN FirstN(content, ContentLimit) \o Ellipsis
    ELSE content

\* f"[Document {i}: {title}] (relevance: {score:.2f})\n"
PartHeader(i, doc) ==
    <<"[", "D", "o", "c", "u", "m", "e", "n", "t", " ">> \o Str(i) \o <<":", " ">> \o
    TitleChars(doc.title) \o
    <<"]", " ", "(", "r", "e", "l", "e", "v", "a", "n", "c", "e", ":", " ">> \o
    Format2f(doc.score) \o <<")", "\n">>

\* part = f"[Document {i}: {title}] (relevance: {score:.2f})\n{content}\n"
Part(i, doc) == PartHeader(i, doc) \o TruncatedContent(doc.content) \o <<"\n">>

\* "\n".join(parts)
RECURSIVE JoinLines(_)
JoinLines(parts) ==
    IF parts = <<>> THEN <<>>
    ELSE IF Len(parts) = 1 THEN parts[1]
    ELSE parts[1] \o <<"\n">> \o JoinLines(Tail(parts))

CharsPerToken == 4

\* the loop with the break after the append: the part that crosses the
\* budget is kept
RECURSIVE ContextParts_break_after_append(_, _, _, _)
ContextParts_break_after_append(results, i, total_chars, max_chars) ==
    IF i > Len(results) THEN <<>>
    ELSE LET part == Part(i, results[i])
         IN  IF total_chars + Len(part) > max_chars THEN <<part>>
             ELSE <<part>> \o
                  ContextParts_break_after_append(results, i + 1,
                                                  total_chars + Len(part), max_chars)

\* the loop of build_context from result i on: the parts appended
RECURSIVE ContextParts(_, _, _, _)
ContextParts(results, i, total_chars, max_chars) ==
    IF i > Len(results) THEN <<>>
    ELSE LET part == Part(i, results[i])
         IN  IF total_chars + Len(part) > max_chars THEN <<>>
             ELSE <<part>> \o
                  ContextParts(results, i + 1, total_chars + Len(part), max_chars)

build_context(ranking, documents, department, max_tokens) ==
    LET search == semantic_search(ranking, documents, NoTopK, department, 0)
    IN  IF search.raised THEN search
        ELSE IF search.value = <<>> THEN Returned(NoRelevantDocuments)
        ELSE Returned(JoinLines(ContextParts(search.value, 1, 0, max_tokens * CharsPerToken)))

\* documents whose contents are around the truncation limit and whose
\* parts are 60, 60, 1037, 1040, 1040 and 57 characters long
LongDocuments ==
    <<Doc(0, "engineering", Text(23)), Doc(1, "public", Text(23)),
      Doc(2, "hr", Text(ContentLimit)), Doc(3, "general", Text(ContentLimit + 1)),
      Doc(4, "HR", Text(ContentLimit + 500)), Doc(5, "finance", Text(20))>>

ContextRanking ==
    <<Hit(0, 0), Hit(1, 1000), Hit(2, 2500), Hit(3, 2500), Hit(4, 9000), Hit(5, 30000)>>

ContextCorpora ==
    {[ranking |-> <<>>, documents |-> <<>>],
     [ranking |-> ContextRanking, documents |-> LongDocuments],
     [ranking |-> ContextRanking, documents |-> SubSeq(LongDocuments, 1, 2)]}

\* max_tokens: the default 2000 and budgets around one, two and three parts
MaxTokensInputs == {0, 10, 15, 30, 31, 290, 2000}

FnBuildContext ==
    /\ \E corpus \in ContextCorpora, department \in DepartmentFilters,
          max_tokens \in MaxTokensInputs :
          call' = [fn |-> "build_context", corpus |-> corpus, department |-> department,
                   max_tokens |-> max_tokens,
                   result |-> build_context(corpus.ranking, corpus.documents,
                                            department, max_tokens)]
    /\ RagUnchanged


NextRag ==
    \/ FnSemanticSearch
    \/ FnVectorStoreSearch
    \/ FnBuildContext

SpecRag == Init /\ [][NextRag]_vars


\* the call of the record made again with another department argument
SearchWithDepartment(c, department) ==
    IF c.fn = "semantic_search"
    THEN semantic_search(c.corpus.ranking, c.corpus.documents, c.top_k, department,
                         c.min_score)
    ELSE vector_store_semantic_search(c.corpus.ranking, c.corpus.documents, department,
                                      c.top_k, c.min_score)

(***************************************************************************)
(* C13 as claimed, for both searches: with a department filter d other     *)
(* than the wildcard every returned document's department is d, public or  *)
(* general; every returned score is at least min_score; with no filter or  *)
(* the wildcard "*" the results are those of the unfiltered search.        *)
(***************************************************************************)
C13_Original ==
    (/\ call.fn \in {"semantic_search", "vector_store_semantic_search"}
     /\ ~call.result.raised) =>
        LET results == call.result.value
        IN  /\ call.department \notin {None, "", "*"} =>
                    \A i \in 1..Len(results) :
                        results[i].department \in {call.department, "public", "general"}
            /\ \A i \in 1..Len(results) : results[i].score >= call.min_score
            /\ call.department \in {None, "", "*"} =>
                    results = SearchWithDepartment(call, None).value


\* the results build_context formats: the default search for the department
ContextResults(c) ==
    semantic_search(c.corpus.ranking, c.corpus.documents, NoTopK, c.department, 0).value

\* the total length of the first n parts
RECURSIVE PartsLength(_, _)
PartsLength(results, n) ==
    IF n = 0 THEN 0 ELSE PartsLength(results, n - 1) + Len(Part(n, results[n]))

\* the first n parts, joined
JoinedPrefix(results, n) == JoinLines([i \in 1..n |-> Part(i, results[i])])

(***************************************************************************)
(* C14: build_context returns the sentinel "No relevant documents found."  *)
(* exactly when the search result set is empty.  Otherwise it returns the  *)
(* joined parts of a prefix of the ranked results, each content cut to     *)
(* 1000 characters (followed by "..."), where the prefix ends at the first *)
(* part whose addition would exceed max_tokens * 4 characters; that part   *)
(* is left out whole, and the returned length is at most max_tokens * 4    *)
(* plus the length of one part.                                            *)
(***************************************************************************)
C14_ContextBudget ==
    (call.fn = "build_context" /\ ~call.result.raised) =>
        LET results == ContextResults(call)
            out == call.result.value
            max_chars == call.max_tokens * CharsPerToken
        IN  /\ (out = NoRelevantDocuments) <=> (results = <<>>)
            /\ results # <<>> =>
                 \E n \in 0..Len(results) :
                    /\ out = JoinedPrefix(results, n)
                    /\ PartsLength(results, n) <= max_chars
                    /\ n < Len(results) =>
                         PartsLength(results, n) + Len(Part(n + 1, results[n + 1]))
                             > max_chars
                    /\ \A i \in 1..n :
                         LET content == results[i].content
                             shown == SubSeq(Part(i, results[i]),
                                             Len(PartHeader(i, results[i])) + 1,
                                             Len(Part(i, results[i])) - 1)
                         IN  /\ FirstN(shown, ContentLimit) = FirstN(content, ContentLimit)
                             /\ Len(shown) <= ContentLimit + Len(Ellipsis)
                    /\ \E i \in 1..Len(results) :
                         Len(out) <= max_chars + Len(Part(i, results[i]))

\* a context that stops before a later part and, with its separator, is
\* longer than max_tokens * 4
C14_Witness ==
    /\ call.fn = "build_context"
    /\ ~call.result.raised
    /\ LET results == ContextResults(call)
           out == call.result.value
       IN  /\ Len(results) >= 3
           /\ out = JoinedPrefix(results, 2)
           /\ Len(out) > call.max_tokens * CharsPerToken


(***************************************************************************)
(* RAGService.add_documents.  The index holds one embedding per position   *)
(* (here the batch and the place in the batch it was made from); the       *)
(* documents table holds the committed rows.  A call runs without          *)
(* suspension from its start through index.add and the session.add loop,   *)
(* and is suspended at await session.commit(), which inserts the rows or   *)
(* raises.                                                                 *)
(***************************************************************************)
MaxBatches == 3

BatchSizes == {0, 1, 2}

Embedding(batch, i) == [batch |-> batch, i |-> i]

\* self._index.add(embeddings)
IndexAdd(index, batch, count) == index \o [i \in 1..count |-> Embedding(batch, i - 1)]

\* the rows of the session: vector_id = start_idx + i for i, doc_data in enumerate(documents)
NewDocs(task) ==
    {[vector_id |-> task.start_idx + i, batch |-> task.batch, i |-> i] :
        i \in 0..(task.count - 1)}

IngestUnchanged ==
    UNCHANGED <<call, conversations, req, turns, completedLog, ai_provider,
                in_memory, redis_data, storage, auth, limiter, chunker>>

\* add_documents up to await session.commit(); an empty batch returns 0
AddDocuments(t) ==
    /\ rag.tasks[t].pc = "idle"
    /\ rag.batches < MaxBatches
    /\ \E count \in BatchSizes :
          LET batch == rag.batches + 1
              start_idx == Len(rag.index)
          IN  rag' = [rag EXCEPT
                        !.batches = batch,
                        !.index = IF count = 0 THEN @ ELSE IndexAdd(@, batch, count),
                        !.tasks[t] = IF count = 0 THEN IdleIngest
                                     ELSE [pc |-> "commit", batch |-> batch,
                                           start_idx |-> start_idx, count |-> count]]
    /\ IngestUnchanged

\* await session.commit() succeeds; vector_id is unique in the table
Commit(t) ==
    /\ rag.tasks[t].pc = "commit"
    /\ \A d \in NewDocs(rag.tasks[t]) :
          \A e \in rag.documents : e.vector_id # d.vector_id
    /\ rag' = [rag EXCEPT !.documents = @ \cup NewDocs(rag.tasks[t]),
                          !.tasks[t] = IdleIngest]
    /\ IngestUnchanged

\* await session.commit() raises: the session's rows are not stored and the
\* exception leaves add_documents; the index keeps the batch's embeddings
CommitFails(t) ==
    /\ rag.tasks[t].pc = "commit"
    /\ rag' = [rag EXCEPT !.tasks[t] = IdleIngest]
    /\ IngestUnchanged

NextIngest ==
    \E t \in IngestTasks :
        \/ AddDocuments(t)
        \/ Commit(t)
        \/ CommitFails(t)

SpecIngest == Init /\ [][NextIngest]_vars

(***************************************************************************)
(* C15 as claimed: whenever no add_documents call is in flight, every      *)
(* stored document's vector_id is the position of its embedding in the     *)
(* index, vector ids are unique, each batch's ids are contiguous from the  *)
(* index size before the batch, and the index size equals the number of    *)
(* stored documents.                                                       *)
(***************************************************************************)
C15_Original ==
    (\A t \in IngestTasks : rag.tasks[t].pc = "idle") =>
        /\ \A d \in rag.documents :
              /\ d.vector_id + 1 \in 1..Len(rag.index)
              /\ rag.index[d.vector_id + 1] = Embedding(d.batch, d.i)
        /\ \A d, e \in rag.documents : d.vector_id = e.vector_id => d = e
        /\ \A d, e \in rag.documents :
              d.batch = e.batch => d.vector_id - d.i = e.vector_id - e.i
        /\ Len(rag.index) = Cardinality(rag.documents)


(***************************************************************************)
(* Authentication: decode_token, get_current_user and the routes           *)
(* POST /auth/logout and GET /auth/me.  auth.blacklist is the              *)
(* token_blacklist table; auth.logged_out records the tokens for which     *)
(* logout has answered 200, and auth.last the last response.               *)
(***************************************************************************)
MaxRequests == 4

\* a bearer token: its payload, and whether jwt.decode accepts it
Token(name, type, sub, ok) ==
    [name |-> name, type |-> type, sub |-> sub, email |-> "u@example.com",
     role |-> "employee", decodes |-> ok]

AccessTokens == {Token("a1", "access", "1", TRUE), Token("a2", "access", "2", TRUE)}

RevokedToken == Token("a3", "access", "3", TRUE)

Tokens ==
    AccessTokens \cup
    {RevokedToken, Token("r1", "refresh", "1", TRUE), Token("x1", "access", "1", FALSE),
     Token("n1", "access", None, TRUE)}

\* int(user_id) of the "sub" claim, which create_access_token writes as str(user_id)
IntOfSub(sub) == CASE sub = "1" -> 1 [] sub = "2" -> 2 [] sub = "3" -> 3

HttpOk(body) == [status |-> 200, detail |-> None, body |-> body]
HttpError(status_code, detail) == [status |-> status_code, detail |-> detail, body |-> None]

\* decode_token: the payload, or 401 for a token jwt.decode rejects
decode_token(token) ==
    IF token.decodes THEN Returned(token)
    ELSE Raised(HttpError(401, "Invalid or expired token"))

get_current_user(token, blacklist) ==
    LET payload == decode_token(token)
    IN  IF payload.raised THEN payload
        ELSE IF token \in blacklist
             THEN Raised(HttpError(401, "Token has been revoked"))
        ELSE IF payload.value.type # "access"
             THEN Raised(HttpError(401, "Invalid token type"))
        ELSE IF payload.value.sub = None
             THEN Raised(HttpError(401, "Invalid token payload"))
        ELSE Returned([id |-> IntOfSub(payload.value.sub), email |-> payload.value.email,
                       role |-> payload.value.role])

\* the token_blacklist rows after logout has run for the token: logout
\* writes an audit event and leaves the table alone
logout(token, blacklist) == blacklist

\* a table that may already hold a row for one token
InitAuth ==
    /\ OrchestratorInit
    /\ call = NoCall
    /\ in_memory = << >>
    /\ redis_data = << >>
    /\ storage = StorageInit
    /\ rag = RagInit
    /\ auth \in {[AuthInit EXCEPT !.blacklist = b] : b \in SUBSET {RevokedToken}}
    /\ limiter = LimiterInit
    /\ chunker = ChunkerInit

AuthUnchanged ==
    UNCHANGED <<call, conversations, req, turns, completedLog, ai_provider,
                in_memory, redis_data, storage, rag, limiter, chunker>>

\* POST /auth/logout with the bearer token
Logout(token) ==
    /\ auth.requests < MaxRequests
    /\ LET current_user == get_current_user(token, auth.blacklist)
       IN  auth' =
             IF current_user.raised
             THEN [auth EXCEPT !.requests = @ + 1,
                               !.last = [kind |-> "logout", token |-> token,
                                         revoked_before |-> token \in auth.logged_out,
                                         response |-> current_user.exc]]
             ELSE [auth EXCEPT !.requests = @ + 1,
                               !.blacklist = logout(token, @),
                               !.logged_out = @ \cup {token},
                               !.last = [kind |-> "logout", token |-> token,
                                         revoked_before |-> token \in auth.logged_out,
                                         response |->
                                            HttpOk("Successfully logged out")]]
    /\ AuthUnchanged

\* GET /auth/me, a request behind Depends(get_current_user)
Me(token) ==
    /\ auth.requests < MaxRequests
    /\ LET current_user == get_current_user(token, auth.blacklist)
       IN  auth' = [auth EXCEPT !.requests = @ + 1,
                                !.last = [kind |-> "me", token |-> token,
                                          revoked_before |-> token \in auth.logged_out,
                                          response |->
                                             IF current_user.raised THEN current_user.exc
                                             ELSE HttpOk(current_user.value)]]
    /\ AuthUnchanged

NextAuth ==
    \E token \in Tokens :
        \/ Logout(token)
        \/ Me(token)

SpecAuth == InitAuth /\ [][NextAuth]_vars

(***************************************************************************)
(* C16 as claimed: once POST /auth/logout has succeeded for an access      *)
(* token, every later authenticated request that presents the same token   *)
(* is rejected with 401 "Token has been revoked".                          *)
(***************************************************************************)
C16_Original ==
    (auth.last.kind # "none" /\ auth.last.revoked_before) =>
        /\ auth.last.response.status = 401
        /\ auth.last.response.detail = "Token has been revoked"


(***************************************************************************)
(* RateLimiter, in-memory path (no Redis configured).  limiter.in_memory   *)
(* is the dict _in_memory (key -> list of timestamps), limiter.now the     *)
(* clock time.time() in seconds.  limiter.allowed[key] is the history of   *)
(* the times at which is_allowed returned True for the key.  The path has  *)
(* no suspension point that yields, so a call is one step.                 *)
(***************************************************************************)
CleanupInterval == 600

CleanupAge == 3600

MaxCalls == 3

MaxClock == 4500

RateKeys == {"10.0.0.1", "10.0.0.2"}

\* (limit, window) of the limiter's user, fixed for a run
RateLimits ==
    {[limit |-> 1, window |-> CleanupInterval], [limit |-> 2, window |-> CleanupInterval],
     [limit |-> 1, window |-> 2 * CleanupAge], [limit |-> 0, window |-> CleanupInterval]}

\* the time that passes between two calls
ClockSteps == {CleanupInterval \div 2, CleanupAge + CleanupInterval \div 2}

\* [ts for ts in timestamps if ts > bound]
RECURSIVE NewerThan(_, _)
NewerThan(timestamps, bnd) ==
    IF timestamps = <<>> THEN <<>>
    ELSE IF Head(timestamps) > bnd THEN <<Head(timestamps)>> \o NewerThan(Tail(timestamps), bnd)
    ELSE NewerThan(Tail(timestamps), bnd)

\* _cleanup_in_memory: the dict without the keys whose list is empty or
\* whose newest timestamp is older than an hour
\* (the name without Python's leading underscore)
cleanup_in_memory(in_mem, now) ==
    LET keys_to_delete ==
            {key \in DOMAIN in_mem :
                in_mem[key] = <<>> \/ in_mem[key][Len(in_mem[key])] < now - CleanupAge}
    IN  [key \in (DOMAIN in_mem) \ keys_to_delete |-> in_mem[key]]

\* a dict with d[key] = value
SetItem(d, key, value) == [k \in (DOMAIN d) \cup {key} |-> IF k = key THEN value ELSE d[k]]

\* is_allowed on the in-memory path: the value returned and the limiter's
\* fields after the call
is_allowed(in_mem, last_cleanup, key, limit, window, now) ==
    LET due == now - last_cleanup > CleanupInterval
        cleaned == IF due THEN cleanup_in_memory(in_mem, now) ELSE in_mem
        present == IF key \in DOMAIN cleaned THEN cleaned[key] ELSE <<>>
        kept == NewerThan(present, now - window)
    IN  [result |-> ~(Len(kept) >= limit),
         last_cleanup |-> IF due THEN now ELSE last_cleanup,
         in_memory |-> SetItem(cleaned, key,
                               IF Len(kept) >= limit THEN kept ELSE Append(kept, now))]

InitLimiter ==
    /\ OrchestratorInit
    /\ call = NoCall
    /\ in_memory = << >>
    /\ redis_data = << >>
    /\ storage = StorageInit
    /\ rag = RagInit
    /\ auth = AuthInit
    /\ limiter \in {[LimiterInit EXCEPT !.limit = r.limit, !.window = r.window,
                                        !.allowed = [k \in RateKeys |-> <<>>]] :
                        r \in RateLimits}
    /\ chunker = ChunkerInit

LimiterUnchanged ==
    UNCHANGED <<call, conversations, req, turns, completedLog, ai_provider,
                in_memory, redis_data, storage, rag, auth, chunker>>

\* await limiter.is_allowed(key, limit, window)
IsAllowed(key) ==
    /\ limiter.calls < MaxCalls
    /\ LET r == is_allowed(limiter.in_memory, limiter.last_cleanup, key,
                           limiter.limit, limiter.window, limiter.now)
       IN  limiter' = [limiter EXCEPT
                          !.calls = @ + 1,
                          !.in_memory = r.in_memory,
                          !.last_cleanup = r.last_cleanup,
                          !.allowed[key] = IF r.result THEN Append(@, limiter.now) ELSE @,
                          !.last = [kind |-> "is_allowed", key |-> key,
                                    now |-> limiter.now, result |-> r.result,
                                    allowed_before |-> limiter.allowed[key],
                                    in_memory_before |-> limiter.in_memory]]
    /\ LimiterUnchanged

\* time passes
ClockAdvance ==
    /\ \E step \in ClockSteps :
          /\ limiter.now + step <= MaxClock
          /\ limiter' = [limiter EXCEPT !.now = @ + step]
    /\ LimiterUnchanged

NextLimiter ==
    \/ \E key \in RateKeys : IsAllowed(key)
    \/ ClockAdvance

SpecLimiter == InitLimiter /\ [][NextLimiter]_vars

\* the calls of the history that fall in the window (t - window, t]
AllowedInWindow(history, t, window) ==
    {i \in 1..Len(history) : history[i] > t - window /\ history[i] <= t}

(***************************************************************************)
(* C17 as claimed: on the in-memory path, for every key at most `limit`    *)
(* calls return True within any time interval of length `window`; a        *)
(* denied call is not recorded; and a call made when the window has        *)
(* elapsed since every recorded call is allowed.                           *)
(***************************************************************************)
C17_Original ==
    /\ \A key \in RateKeys :
          \A i \in 1..Len(limiter.allowed[key]) :
              Cardinality(AllowedInWindow(limiter.allowed[key], limiter.allowed[key][i],
                                          limiter.window)) <= limiter.limit
    /\ (limiter.last.kind = "is_allowed" /\ ~limiter.last.result) =>
          \A i \in 1..Len(limiter.in_memory[limiter.last.key]) :
              \E j \in 1..Len(limiter.last.in_memory_before[limiter.last.key]) :
                  /\ limiter.last.in_memory_before[limiter.last.key][j] =
                        limiter.in_memory[limiter.last.key][i]
                  /\ Len(limiter.in_memory[limiter.last.key]) <=
                        Len(limiter.last.in_memory_before[limiter.last.key])
    /\ (/\ limiter.last.kind = "is_allowed"
        /\ limiter.limit >= 1
        /\ AllowedInWindow(limiter.last.allowed_before, limiter.last.now,
                           limiter.window) = {}) => limiter.last.result


(***************************************************************************)
(* vector-store/ingest.py chunk_text.  The text is the sequence of its     *)
(* words (text.split()), a chunk the sequence of the words joined into     *)
(* it.  The while loop is run one iteration per step, chunker.pc being     *)
(* the position in the function: "loop" at the loop test, "returned"       *)
(* after a return, "raised" after an exception.                            *)
(***************************************************************************)
MaxWords == 4

MaxChunks == 3

ChunkSizes == -1..3

Overlaps == -1..3

\* text.split() of a text of n words
Words(n) == [i \in 1..n |-> i]

\* the index Python's slice uses for a bound b on a list of length n
SliceBound(b, n) ==
    IF b < 0 THEN (IF b + n < 0 THEN 0 ELSE b + n)
    ELSE IF b > n THEN n ELSE b

\* words[start:end]
Slice(words, start, end) ==
    LET lo == SliceBound(start, Len(words))
        hi == SliceBound(end, Len(words))
    IN  IF lo >= hi THEN <<>> ELSE SubSeq(words, lo + 1, hi)

ChunkerUnchanged ==
    UNCHANGED <<call, conversations, req, turns, completedLog, ai_provider,
                in_memory, redis_data, storage, rag, auth, limiter>>

\* chunk_text(text, chunk_size, overlap) from its call to the loop test or
\* to the early return
ChunkTextCall ==
    /\ chunker.pc \in {"idle", "returned", "raised"}
    /\ \E n \in 0..MaxWords, chunk_size \in ChunkSizes, overlap \in Overlaps :
          LET words == Words(n)
          IN  chunker' =
                IF Len(words) <= chunk_size
                THEN [pc |-> "returned", words |-> words, chunk_size |-> chunk_size,
                      overlap |-> overlap, start |-> 0, chunks |-> <<words>>,
                      exc |-> None]
                ELSE [pc |-> "loop", words |-> words, chunk_size |-> chunk_size,
                      overlap |-> overlap, start |-> 0, chunks |-> <<>>, exc |-> None]
    /\ ChunkerUnchanged

\* one iteration of the while loop
ChunkTextIteration ==
    /\ chunker.pc = "loop"
    /\ chunker.start < Len(chunker.words)
    /\ Len(chunker.chunks) < MaxChunks
    /\ LET end == chunker.start + chunker.chunk_size
           chunk == Slice(chunker.words, chunker.start, end)
       IN  chunker' = [chunker EXCEPT !.chunks = Append(@, chunk),
                                      !.start = end - chunker.overlap]
    /\ ChunkerUnchanged

\* the loop test fails: return chunks
ChunkTextReturn ==
    /\ chunker.pc = "loop"
    /\ ~(chunker.start < Len(chunker.words))
    /\ chunker' = [chunker EXCEPT !.pc = "returned"]
    /\ ChunkerUnchanged

NextChunker ==
    \/ ChunkTextCall
    \/ ChunkTextIteration
    \/ ChunkTextReturn

SpecChunker == Init /\ [][NextChunker]_vars

InvalidChunkParameters ==
    \/ chunker.chunk_size <= 0
    \/ chunker.overlap < 0
    \/ chunker.overlap >= chunker.chunk_size

(***************************************************************************)
(* C18 as claimed: a chunk_text call with chunk_size <= 0, overlap < 0 or  *)
(* overlap >= chunk_size raises ValueError: it neither produces a chunk    *)
(* nor returns.                                                            *)
(***************************************************************************)
C18_Original ==
    (chunker.pc # "idle" /\ InvalidChunkParameters) =>
        /\ chunker.chunks = <<>>
        /\ chunker.pc # "returned"
        /\ chunker.pc = "raised" => chunker.exc = "ValueError"


(***************************************************************************)
(* C19 as claimed: a call_tool invocation made with a known user id emits  *)
(* exactly one audit record, carrying the user id, the tool name and the   *)
(* success flag of the call, whether the call succeeds or fails; an        *)
(* invocation without user id emits none.                                  *)
(***************************************************************************)
C19_Original ==
    call.fn = "call_tool" =>
        IF call.user_id \in {NoUserId, UserId(0)}
        THEN call.audit = <<>>
        ELSE /\ Len(call.audit) = 1
             /\ call.audit[1].user_id = call.user_id.value
             /\ call.audit[1].tool_name = call.tool_name
             /\ call.audit[1].success =
                   (/\ ~call.result.raised
                    /\ Get(call.result.value, "success", TRUE))


SnippetLimit == 200

SourcesLimit == 3

\* SourceReference(title=..., content_snippet=doc["content"][:200],
\*                 source_type="document", relevance_score=doc["score"])
SourceReference(doc) ==
    [title |-> doc.title, content_snippet |-> FirstN(doc.content, SnippetLimit),
     source_type |-> "document", relevance_score |-> doc.score]

\* the sources of the searched results: for doc in rag_results[:3]
SourcesOf(rag_results) ==
    [i \in 1..Len(FirstN(rag_results, SourcesLimit)) |-> SourceReference(rag_results[i])]

\* the references of the semantic search for the requester's department on
\* the corpus of the model
SearchedSources(user) ==
    SourcesOf(semantic_search(Ranking, Documents, NoTopK, user.department, 0).value)

(***************************************************************************)
(* C20 as claimed: a handle_query call that has got its answer and         *)
(* updated the conversation returns a response whose sources are, when     *)
(* include_sources is set, one SourceReference for each of the top 3       *)
(* semantic-search results for the requester's department, in rank order,  *)
(* with a snippet of at most 200 characters and the result's score; and    *)
(* empty when include_sources is false.                                    *)
(***************************************************************************)
C20_Original ==
    \A r \in Reqs :
        (req[r].pc \in {"returned", "raised"} /\ req[r].appended) =>
            /\ req[r].pc = "returned"
            /\ req[r].response.sources =
                  IF req[r].include_sources THEN SearchedSources(req[r].user) ELSE <<>>
            /\ \A i \in 1..Len(req[r].response.sources) :
                  Len(req[r].response.sources[i].content_snippet) <= SnippetLimit
            /\ Len(req[r].response.sources) <= SourcesLimit


\* the names of a list of ToolExecution records
ToolNames(execs) == [i \in 1..Len(execs) |-> execs[i].tool_name]

\* the discovered tools that are applicable to the query and permitted for the role
Eligible(tools, query, role) ==
    {t \in Range(tools) : should_use(t, query) /\ can_access_tool(role, t)}

(***************************************************************************)
(* C21.  Tool selection safety: the tools handle_query makes a call for    *)
(* are exactly the discovered tools that are applicable to the query       *)
(* (should_use) and permitted for the requester's role (can_access_tool);  *)
(* every ToolExecution of the call and of the response is for such a tool. *)
(***************************************************************************)
C21_ToolSelection ==
    \A r \in Reqs :
        /\ req[r].pc \in {"tools", "llm"} =>
              /\ req[r].tools = discover_tools(req[r].user.role, req[r].registry).value
              /\ Range(req[r].tasks) =
                    Eligible(req[r].tools, req[r].query, req[r].user.role)
              /\ \A i \in 1..Len(req[r].results) :
                    req[r].results[i].done =>
                        req[r].results[i].exec.tool_name = req[r].tasks[i]
              /\ Range(ToolNames(req[r].tools_used)) \subseteq Range(req[r].tasks)
        /\ req[r].pc = "returned" =>
              \A t \in Range(ToolNames(req[r].response.tools_used)) :
                    /\ should_use(t, req[r].query)
                    /\ can_access_tool(req[r].user.role, t)

\* tool calls are pending while a discovered, applicable tool the role is
\* not permitted has been left out
C21_Witness ==
    \E r \in Reqs :
        /\ req[r].pc = "tools"
        /\ req[r].tasks # <<>>
        /\ \E t \in Range(req[r].tools) :
              /\ should_use(t, req[r].query)
              /\ ~can_access_tool(req[r].user.role, t)
              /\ t \notin Range(req[r].tasks)
        /\ \E t \in Range(req[r].tools) : ~should_use(t, req[r].query)


(***************************************************************************)
(* C22.  Fan-out / fan-in: handle_query goes on to the prompt and the LLM  *)
(* only when every selected tool call has ended; no ending of a tool call, *)
(* failed or not, ends the query; and whatever the order in which the      *)
(* calls ended, the tools_used of the call and of its response hold        *)
(* exactly one ToolExecution per selected tool, in the order of selection. *)
(***************************************************************************)
C22_FanIn ==
    [][\A r \in Reqs :
          /\ req[r].pc = "tools" =>
                /\ req'[r].pc \in {"tools", "llm"}
                /\ req'[r].pc = "llm" =>
                      /\ \A i \in 1..Len(req[r].tasks) : req[r].results[i].done
                      /\ ToolNames(req'[r].tools_used) = req[r].tasks
          /\ (req[r].pc = "llm" /\ req'[r].pc = "returned") =>
                /\ Len(req[r].arrival) = Len(req[r].tasks)
                /\ ToolNames(req'[r].response.tools_used) = req[r].tasks]_vars

\* the second selected call ended first and failed, the first succeeded,
\* and the join has been passed
C22_Witness ==
    \E r \in Reqs :
        /\ req[r].pc = "llm"
        /\ Len(req[r].tasks) = 2
        /\ req[r].arrival = <<2, 1>>
        /\ ~req[r].tools_used[2].success
        /\ req[r].tools_used[1].success
        /\ ToolNames(req[r].tools_used) = req[r].tasks


Succeeded(e) == e.success

(***************************************************************************)
(* C23.  A failed tool call contributes nothing to the prompt but is       *)
(* recorded: the tool results handed to prompt assembly are exactly the    *)
(* results of the ToolExecutions with success true, in order; every        *)
(* ToolExecution of a returned response is in the conversation's           *)
(* tools_used; and a ToolExecution with success false has no result.       *)
(***************************************************************************)
C23_FailedToolsRecorded ==
    \A r \in Reqs :
        /\ req[r].pc = "llm" =>
              LET ok == SelectSeq(req[r].tools_used, Succeeded)
              IN  /\ req[r].tool_results =
                        [i \in 1..Len(ok) |-> [tool |-> ok[i].tool_name,
                                               data |-> ok[i].result]]
                  /\ Len(req[r].tools_used) = Len(req[r].tasks)
                  /\ \A i \in 1..Len(req[r].tools_used) :
                        ~req[r].tools_used[i].success =>
                            req[r].tools_used[i].result = None
        /\ req[r].pc = "returned" =>
              /\ \A i \in 1..Len(req[r].response.tools_used) :
                    ~req[r].response.tools_used[i].success =>
                        req[r].response.tools_used[i].result = None
              /\ Range(req[r].response.tools_used) \subseteq
                    Range(conversations[req[r].ctx].tools_used)

\* a response with a failed and a successful ToolExecution, both stored
C23_Witness ==
    \E r \in Reqs :
        /\ req[r].pc = "returned"
        /\ \E i, j \in 1..Len(req[r].response.tools_used) :
              /\ ~req[r].response.tools_used[i].success
              /\ req[r].response.tools_used[j].success
        /\ Range(req[r].response.tools_used) \subseteq
              Range(conversations[req[r].ctx].tools_used)


(***************************************************************************)
(* C24 as claimed: when handle_query has raised, the stored conversation   *)
(* of the call is as it was before the call: it existed before, and the    *)
(* call has appended nothing to it.                                        *)
(***************************************************************************)
C24_Original ==
    \A r \in Reqs :
        req[r].pc = "raised" =>
            /\ req[r].ctx \in req[r].known_before
            /\ ~req[r].appended


C26_Original ==
    [][\A r \in Reqs :
          (req[r].pc = "llm" /\ req'[r].pc = "returned") =>
              conversations'[req[r].ctx].messages =
                  req[r].at_start \o <<Message("user", req[r].query),
                                       Message("assistant", req'[r].answer)>>]_vars


(***************************************************************************)
(* The history section of the prompt: handle_query lines 179-192 and       *)
(* _build_prompt lines 269-274.  Message contents are sequences of         *)
(* characters here, since the section cuts them.                           *)
(***************************************************************************)
PromptWindow == 4

MessageLimit == 500

MaxStored == 12

HistoryHeader ==
    <<"\n", "#", "#", " ", "C", "o", "n", "v", "e", "r", "s", "a", "t", "i", "o", "n", " ",
      "H", "i", "s", "t", "o", "r", "y", "\n">>

\* msg["role"].capitalize()
Capitalize(role) ==
    CASE role = "user" -> <<"U", "s", "e", "r">>
      [] role = "assistant" -> <<"A", "s", "s", "i", "s", "t", "a", "n", "t">>

\* f"{role}: {msg['content'][:500]}\n"
HistoryLine(msg) ==
    Capitalize(msg.role) \o <<":", " ">> \o FirstN(msg.content, MessageLimit) \o <<"\n">>

RECURSIVE HistoryLines(_)
HistoryLines(msgs) ==
    IF msgs = <<>> THEN <<>> ELSE HistoryLine(Head(msgs)) \o HistoryLines(Tail(msgs))

\* A slip: every message handed over is rendered.
history_text_unwindowed(conversation_history) ==
    IF conversation_history = <<>> THEN <<>>
    ELSE HistoryHeader \o HistoryLines(conversation_history)

\* _build_prompt: history_text
history_text(conversation_history) ==
    IF conversation_history = <<>> THEN <<>>
    ELSE HistoryHeader \o HistoryLines(LastN(conversation_history, PromptWindow))

\* the content of the i-th stored message: its number in brackets, two
\* digits wide, then filler up to n characters
NumberedText(i, n) ==
    <<"[">> \o (IF i < 10 THEN <<"0">> ELSE <<>>) \o Str(i) \o <<"]">> \o Text(n - 4)

ContentLengths == {8, MessageLimit, MessageLimit + 1, MessageLimit + 100}

\* a conversation of n stored messages, user and assistant in turn; the
\* message at position long has a content of len characters
StoredMessages(n, long, len) ==
    [i \in 1..n |-> Message(IF i % 2 = 1 THEN "user" ELSE "assistant",
                            NumberedText(i, IF i = long THEN len ELSE 8))]

\* Step 4 and step 5 of handle_query on a stored conversation: the prompt's
\* history section, then the two appends
FnBuildPrompt ==
    /\ \E n \in 0..MaxStored, len \in ContentLengths, back \in 0..PromptWindow :
          LET stored == StoredMessages(n, n - back, len)
              context == [ConversationContext("c1") EXCEPT !.messages = stored]
              query == NumberedText(n + 1, 8)
              answer == NumberedText(n + 2, 8)
          IN  call' = [fn |-> "_build_prompt", stored |-> stored, query |-> query,
                       conversation_history |-> ConversationHistory(context),
                       history_text |-> history_text(ConversationHistory(context)),
                       stored_after |->
                           UpdateConversation(context, query, answer, <<>>).messages]
    /\ OrchestratorUnchanged

SpecPrompt == Init /\ [][FnBuildPrompt]_vars

\* the lines of the messages at positions from..to of a list
RECURSIVE RenderedRange(_, _, _)
RenderedRange(msgs, from, to) ==
    IF from > to THEN <<>>
    ELSE Capitalize(msgs[from].role) \o <<":", " ">>
            \o SubSeq(msgs[from].content, 1,
                      IF Len(msgs[from].content) < MessageLimit
                      THEN Len(msgs[from].content) ELSE MessageLimit)
            \o <<"\n">> \o RenderedRange(msgs, from + 1, to)

\* a occurs in b as a contiguous run
Occurs(a, b) == \E k \in 0..(Len(b) - Len(a)) : SubSeq(b, k + 1, k + Len(a)) = a

(***************************************************************************)
(* C27.  History window: the history section of the prompt is built from   *)
(* the messages stored before this turn's two are appended; it renders     *)
(* the last 4 of them (fewer when fewer are stored), in stored order, each *)
(* content cut to its first 500 characters; no older message and neither   *)
(* of this turn's messages is in it; with no stored message the section    *)
(* is empty.                                                               *)
(***************************************************************************)
C27_HistoryWindow ==
    call.fn = "_build_prompt" =>
        LET n == Len(call.stored)
            first == IF n > PromptWindow THEN n - PromptWindow + 1 ELSE 1
        IN  /\ (call.history_text = <<>>) <=> (n = 0)
            /\ n > 0 =>
                  call.history_text = HistoryHeader \o RenderedRange(call.stored, first, n)
            /\ \A i \in 1..(first - 1) :
                  ~Occurs(SubSeq(call.stored[i].content, 1, 4), call.history_text)
            /\ \A i \in (n + 1)..Len(call.stored_after) :
                  ~Occurs(SubSeq(call.stored_after[i].content, 1, 4), call.history_text)
            /\ Len(call.stored_after) = n + 2

\* more than 10 stored messages, one of the last 4 longer than 500 characters
C27_Witness ==
    /\ call.fn = "_build_prompt"
    /\ Len(call.stored) > HistoryWindow
    /\ \E i \in (Len(call.stored) - PromptWindow + 1)..Len(call.stored) :
          Len(call.stored[i].content) > MessageLimit
    /\ Len(call.history_text) > PromptWindow * 8
    /\ Len(call.history_text) < Len(HistoryHeader) + PromptWindow * (MessageLimit + 12)


(***************************************************************************)
(* RAGService.semantic_search while add_documents calls run.  A search     *)
(* runs without suspension from its start through self._index.search, and  *)
(* is suspended at await session.execute(stmt), which reads the documents  *)
(* table in a session of its own: it sees the committed rows and no row    *)
(* that another session has added and not committed.                       *)
(***************************************************************************)
MaxSearches == 1

SearchTopK == {TopK(1), TopK(2), NoTopK}

\* the index's order for a query: nearest first, by ascending or by
\* descending position
SearchOrders == {"ascending", "descending"}

IndexRanking(index, order) ==
    [j \in 1..Len(index) |->
        Hit(IF order = "ascending" THEN j - 1 ELSE Len(index) - j, 1000 * j)]

\* the rows a session that did not write them sees: the session of another
\* call shows nothing before its commit
SessionDocuments(r) ==
    r.documents \cup UNION {NewDocs(r.tasks[t]) : t \in {u \in IngestTasks : r.tasks[u].pc = "commit"}}

\* select(Document) in the search's own session: the committed rows
VisibleDocuments(r) == r.documents

\* the Document row of an ingested document; its content is named by the
\* batch and the place in the batch it came from, as its embedding is
DocumentRow(d) ==
    [vector_id |-> d.vector_id, title |-> "Document", content |-> Embedding(d.batch, d.i),
     department |-> "public", source |-> "unknown"]

SearchUnchanged ==
    UNCHANGED <<conversations, req, turns, completedLog, ai_provider,
                in_memory, redis_data, storage, auth, limiter, chunker>>

\* semantic_search up to await session.execute(stmt); an empty index returns []
SearchIndex ==
    /\ rag.search.pc = "idle"
    /\ rag.searches < MaxSearches
    /\ \E top_k \in SearchTopK, order \in SearchOrders :
          LET k == IF ~top_k.given \/ top_k.value = 0 THEN VectorSearchTopK
                   ELSE top_k.value
              ranking == IndexRanking(rag.index, order)
              n == IF k * 2 < Len(ranking) THEN k * 2 ELSE Len(ranking)
          IN  IF ranking = <<>>
              THEN /\ rag' = [rag EXCEPT !.searches = @ + 1]
                   /\ call' = [fn |-> "semantic_search.join", found |-> <<>>, k |-> k,
                               index |-> rag.index, documents |-> rag.documents,
                               in_flight |-> {t \in IngestTasks : rag.tasks[t].pc = "commit"},
                               result |-> Returned(<<>>)]
              ELSE /\ rag' = [rag EXCEPT !.searches = @ + 1,
                                         !.search = [pc |-> "join", k |-> k,
                                                     found |-> IndexSearch(ranking, n)]]
                   /\ UNCHANGED call
    /\ SearchUnchanged

\* the rest of semantic_search: the select and the join loop
SearchJoin ==
    /\ rag.search.pc = "join"
    /\ LET found == rag.search.found
           ids == {found[i].idx : i \in 1..Len(found)}
           db_docs == {DocumentRow(d) : d \in {e \in VisibleDocuments(rag) : e.vector_id \in ids}}
       IN  call' = [fn |-> "semantic_search.join", found |-> found, k |-> rag.search.k,
                    index |-> rag.index, documents |-> rag.documents,
                    in_flight |-> {t \in IngestTasks : rag.tasks[t].pc = "commit"},
                    result |-> Returned(CollectResults(found, db_docs, rag.search.k,
                                                       None, 0, <<>>))]
    /\ rag' = [rag EXCEPT !.search = IdleSearch]
    /\ SearchUnchanged

\* a search can still start, or one is running
SearchPending == rag.searches < MaxSearches \/ rag.search.pc # "idle"

\* the add_documents calls that run beside the search: one at a time
SearchIngestTasks == {1}

\* the ingestion steps are followed as long as a search can observe them
NextSearchIngest ==
    \/ /\ SearchPending
       /\ \E t \in SearchIngestTasks :
             \/ AddDocuments(t)
             \/ Commit(t)
             \/ CommitFails(t)
    \/ SearchIndex
    \/ SearchJoin

SpecSearchIngest == Init /\ [][NextSearchIngest]_vars

\* the vector ids of a search's results, in order
ResultIds(results) == [i \in 1..Len(results) |-> results[i].index]

\* the found ids that have a committed row, in the index's order
ResolvedIds(found, documents) ==
    LET ids == [i \in 1..Len(found) |-> found[i].idx]
        Resolved(id) == \E d \in documents : d.vector_id = id
    IN  SelectSeq(ids, Resolved)

(***************************************************************************)
(* C28.  A search that runs while ingestions are in flight returns and     *)
(* does not raise; every result is a committed row, with all of its        *)
(* fields, and is the document its vector was made from; a vector id the   *)
(* index returned whose row is not committed (not yet, or never) is        *)
(* skipped, and the results are the resolvable ids in the index's order,   *)
(* up to top_k.                                                            *)
(***************************************************************************)
C28_SearchDuringIngestion ==
    call.fn = "semantic_search.join" =>
        /\ ~call.result.raised
        /\ LET results == call.result.value
           IN  /\ \A i \in 1..Len(results) :
                     LET r == results[i]
                     IN  /\ \E d \in call.documents :
                               /\ d.vector_id = r.index
                               /\ r.content = Embedding(d.batch, d.i)
                         /\ r.index + 1 \in 1..Len(call.index)
                         /\ call.index[r.index + 1] = r.content
                         /\ r.title # None /\ r.department # None /\ r.source # None
               /\ ResultIds(results) = FirstN(ResolvedIds(call.found, call.documents), call.k)

\* a search whose select ran while a batch was added and not committed:
\* the index returned ids of that batch, and the search returned the others
C28_Witness ==
    /\ call.fn = "semantic_search.join"
    /\ call.in_flight # {}
    /\ \E i \in 1..Len(call.found) :
          \A d \in call.documents : d.vector_id # call.found[i].idx
    /\ call.result.value # <<>>
    /\ Len(call.result.value) < Len(call.found)
    /\ Len(call.result.value) < call.k


(***************************************************************************)
(* The execution plane's endpoint POST /tools/{tool_name} (mcp-server      *)
(* server.py execute_tool) and its permission check (permissions.py        *)
(* can_access).  run is what the tool's handler does when it is called     *)
(* with the request's parameters: it returns, or raises TypeError (they do *)
(* not fit the handler's signature) or another Exception.                  *)
(***************************************************************************)
\* A slip: every role may execute every tool.
can_access_open(role, tool_name) == TRUE

\* ROLE_TOOL_MAP.get(role, []) ... tool_name in allowed_tools
can_access(role, tool_name) ==
    LET allowed_tools == IF role \in DOMAIN ROLE_TOOL_MAP THEN ROLE_TOOL_MAP[role] ELSE {}
    IN  tool_name \in allowed_tools

ToolResponse(success, tool_name, result, error, execution_time_ms) ==
    [success |-> success, tool_name |-> tool_name, result |-> result, error |-> error,
     execution_time_ms |-> execution_time_ms]

HandlerRuns ==
    {[outcome |-> "returns", result |-> "rows", text |-> "", ms |-> 12],
     [outcome |-> "TypeError", result |-> None,
      text |-> "got an unexpected keyword argument 'query'", ms |-> 1],
     [outcome |-> "Exception", result |-> None, text |-> "no such table: users", ms |-> 7]}

\* execute_tool: whether the handler was called, and what the endpoint does
execute_tool(tool_name, role, run) ==
    IF tool_name \notin Range(TOOLS)
    THEN [invoked |-> FALSE,
          response |-> Returned(ToolResponse(FALSE, tool_name, None,
                                             "Tool not found: " \o tool_name, 0))]
    ELSE IF ~can_access(role, tool_name)
    THEN [invoked |-> FALSE,
          response |-> Returned(ToolResponse(FALSE, tool_name, None,
                          "Permission denied: Role '" \o role \o "' cannot access tool '"
                              \o tool_name \o "'", 0))]
    ELSE CASE run.outcome = "returns" ->
                [invoked |-> TRUE,
                 response |-> Returned(ToolResponse(TRUE, tool_name, run.result, None, run.ms))]
           [] run.outcome = "TypeError" ->
                [invoked |-> TRUE,
                 response |-> Returned(ToolResponse(FALSE, tool_name, None,
                                  "Invalid parameters: " \o run.text, run.ms))]
           [] OTHER ->
                [invoked |-> TRUE,
                 response |-> Returned(ToolResponse(FALSE, tool_name, None,
                                  "Tool execution failed: " \o run.text, run.ms))]

\* tool names of the table, one that is imported and not registered, one unknown
ServerToolInputs == Range(TOOLS) \cup {"get_repo_info", "unknown_tool"}

ServerRoleInputs == {"admin", "manager", "employee", "Admin", "guest", ""}

FnExecuteTool ==
    /\ \E tool_name \in ServerToolInputs, role \in ServerRoleInputs, run \in HandlerRuns :
          call' = [fn |-> "execute_tool", tool_name |-> tool_name, role |-> role,
                   run |-> run, out |-> execute_tool(tool_name, role, run)]
    /\ OrchestratorUnchanged

FnListTools ==
    /\ \E role \in ServerRoleInputs :
          call' = [fn |-> "list_tools", role |-> role, tools |-> list_tools(role)]
    /\ OrchestratorUnchanged

\* the answers GET /tools?role= can get: the server's list, or no answer
DiscoveryReplies(role) ==
    {[kind |-> "json", body |-> [tools |-> list_tools(role)]],
     [kind |-> "http_error", exc |-> "ConnectError", ms |-> 0]}

\* One tool call of handle_query as the execution plane sees it: the tool
\* was discovered for the role, the backend's resolver permits it
\* (ai_orchestrator.py 157-165), and call_tool posts it with the same role
FnDispatch ==
    /\ \E role \in ServerRoleInputs, tool_name \in ServerToolInputs, run \in HandlerRuns :
       \E reply \in DiscoveryReplies(role) :
          LET tools == discover_tools(role, reply).value
          IN  /\ tool_name \in Range(tools)
              /\ can_access_tool(role, tool_name)
              /\ call' = [fn |-> "dispatch", role |-> role, tool_name |-> tool_name,
                          discovered |-> tools, run |-> run,
                          out |-> execute_tool(tool_name, role, run)]
    /\ OrchestratorUnchanged

NextServer ==
    \/ FnExecuteTool
    \/ FnListTools
    \/ FnDispatch

SpecServer == Init /\ [][NextServer]_vars

\* the role map as the claim reads it: who may execute what
MayExecute(role, tool_name) ==
    \/ role = "admin" /\ tool_name \in Range(TOOLS)
    \/ /\ role = "manager"
       /\ tool_name \in {"search_documents", "query_database", "get_database_schema",
                         "search_jira", "get_jira_ticket", "list_jira_sprints"}
    \/ role = "employee" /\ tool_name = "search_documents"

(***************************************************************************)
(* C29.  execute_tool never raises; it calls the tool's handler only if    *)
(* the tool exists and the role may access it; when it does not call the   *)
(* handler, and when the handler raises, the response has success false    *)
(* and an error that is not null; when the handler returns, the response   *)
(* has success true and the handler's result.                              *)
(***************************************************************************)
C29_PermissionBeforeExecution ==
    call.fn = "execute_tool" =>
        LET response == call.out.response.value
        IN  /\ ~call.out.response.raised
            /\ call.out.invoked <=> MayExecute(call.role, call.tool_name)
            /\ (~call.out.invoked \/ call.run.outcome # "returns") =>
                  /\ ~response.success
                  /\ response.error # None
                  /\ response.result = None
            /\ (call.out.invoked /\ call.run.outcome = "returns") =>
                  /\ response.success
                  /\ response.error = None
                  /\ response.result = call.run.result
            /\ response.tool_name = call.tool_name

\* a manager asks for a tool of the table that only admins have: denied
\* without a call of the handler
C29_Witness ==
    /\ call.fn = "execute_tool"
    /\ call.role = "manager"
    /\ call.tool_name = "search_github"
    /\ call.run.outcome = "returns"
    /\ ~call.out.invoked
    /\ ~call.out.response.value.success
    /\ call.out.response.value.error =
          "Permission denied: Role 'manager' cannot access tool 'search_github'"


\* the error text of a refusal by the execution plane
PermissionDenied(role, tool_name) ==
    "Permission denied: Role '" \o role \o "' cannot access tool '" \o tool_name \o "'"

(***************************************************************************)
(* C30.  For every role, each tool the backend's resolver permits is       *)
(* permitted by the execution plane's role map and is in the list its      *)
(* discovery endpoint returns for that role; a tool call the orchestrator  *)
(* dispatches (discovered and permitted by the backend) reaches the tool's *)
(* handler and is not answered with a permission refusal.                  *)
(***************************************************************************)
C30_TablesAgree ==
    /\ call.fn = "list_tools" =>
          \A tool_name \in ServerToolInputs :
              can_access_tool(call.role, tool_name) =>
                  /\ can_access(call.role, tool_name)
                  /\ \E i \in 1..Len(call.tools) : call.tools[i] = tool_name
    /\ call.fn = "dispatch" =>
          /\ call.out.invoked
          /\ call.out.response.value.error # PermissionDenied(call.role, call.tool_name)
          /\ call.out.response.value.success <=> call.run.outcome = "returns"

\* a manager's query_database call is executed
C30_Witness ==
    /\ call.fn = "dispatch"
    /\ call.role = "manager"
    /\ call.tool_name = "query_database"
    /\ call.run.outcome = "returns"
    /\ call.out.invoked
    /\ call.out.response.value.success

====
